---------------------------- MODULE Spec2Model ----------------------------
(***************************************************************************)
(* A state-machine model of the change-stream engine (ChangeStream,        *)
(* src/unnamed/part_000) on top of the generic cursor (AbstractCursor,     *)
(* src/unnamed/part_001).                                                  *)
(*                                                                         *)
(* JavaScript runs one callback at a time, so every action below is one    *)
(* event-loop turn: a consumer call, the completion of an RPC (aggregate,  *)
(* getMore, killCursors), a topology-wait timer or the first read of a     *)
(* stream.  A turn is computed by operators that map the whole program     *)
(* state, held as a record s, to the state after the call; an operator is  *)
(* named after the function of the source it models.  A function call is   *)
(* an operator application; the invocation of a callback is put on the     *)
(* stack of the turn (Call) and run by Exec.  Callbacks that outlive a     *)
(* turn are data: the waiter of an RPC (w), the continuation of a cleanup  *)
(* (after) and the callback of ChangeStream.close (cbt).                   *)
(***************************************************************************)
EXTENDS Integers, Sequences, FiniteSets, Bags, TLC

\* Bounds of the model.
MaxCalls == 2      \* iterator calls (next / hasNext / tryNext) the consumer makes
MaxCursors == 2    \* cursor instances: the constructor's one plus the resumes'
MaxBatch == 1      \* documents in one firstBatch / nextBatch
MaxCloses == 2     \* close() calls the consumer makes
MaxListeners == 1  \* `change` listeners the consumer attaches
MaxCount == 2      \* the event and callback counters stop counting here
MaxToken == 3      \* positions of the oplog: 1 is where the stream opens, events follow
MaxReply == 2      \* documents in one reply of the oplog server
MaxMutations == 2  \* mutator calls the consumer makes on its FindCursor
MaxOps == 3         \* command / getMore / killCursors calls made on the Server
MaxHandlers == 2   \* handlers of a kind on the cursor stream, past which no listener is added

\* The wire version from which a server takes startAtOperationTime.
MinOperationTimeWire == 7

\* const SELECTION_TIMEOUT, and the delay of the setTimeout of the topology wait, in ms
SELECTION_TIMEOUT == 30000
PollDelay == 500

Calls == 1 .. MaxCalls
CursorIds == 1 .. MaxCursors

\* A resume token is a position of the server's oplog; 0 stands for no token (null,
\* undefined).  Position 1 is the point at which a stream without options opens.
Tokens == 1 .. MaxToken

\* The change document of the event at position t: its _id is the token t.
Doc(t) == ToString(t)

\* A document of a batch: a change with its _id, or one that lacks it.
DocKinds == {"noid"} \cup {Doc(t) : t \in Tokens}

\* change._id, 0 when the change lacks it
Id(d) == IF d = "noid" THEN 0 ELSE CHOOSE t \in Tokens : Doc(t) = d

\* The options resumeAfter, startAfter and startAtOperationTime of a ChangeStream or
\* of a cursor, which are also those of its $changeStream stage.
Options(ra, sa, op) == [resumeAfter |-> ra, startAfter |-> sa, startAtOperationTime |-> op]

NoOptions == Options(0, 0, 0)

RECURSIVE SeqsUpTo(_, _)
SeqsUpTo(S, n) ==
    IF n = 0 THEN {<<>>}
    ELSE LET shorter == SeqsUpTo(S, n - 1)
         IN  shorter \cup {Append(q, x) : q \in {p \in shorter : Len(p) = n - 1}, x \in S}

\* The batches of a server of which nothing is assumed: every change it sends has the
\* same _id.
Batches == SeqsUpTo({"noid", Doc(1)}, MaxBatch)

\* Errors an RPC can return, by what the code looks at:
\*   "net"         a MongoNetworkError, resumable;
\*   "interrupted" a resumable server error whose message matches /interrupted/;
\*   "srvclosed"   an error whose message matches /server is closed/, not resumable;
\*   "fatal"       any other error, not resumable.
ErrKinds == {"net", "interrupted", "srvclosed", "fatal"}

\* isResumableError(error, maxWireVersion(cursor.server)): the classifier lives in
\* error.ts; here an error kind carries its class.
isResumableError(e) == e \in {"net", "interrupted"}

\* error instanceof MongoNetworkError
isNetworkError(e) == e = "net"

VARIABLES
    mode,          \* this[kMode]: "unset" (false), "iterator", "emitter"
    closed,        \* this[kClosed] of the ChangeStream
    cursor,        \* this.cursor: 0 (undefined) or the index of a cursor instance
    cur,           \* the cursor instances: id, buffer, flags
    ncur,          \* cursor instances created so far
    queue,         \* this[kResumeQueue]; push appends, pop takes the last
    listeners,     \* listenerCount('change')
    stream,        \* this[kCursorStream] and the closure state of makeCursorStream
    calls,         \* the consumer's iterator calls and what their callbacks received
    rpcs,          \* RPCs in flight (a bag), each with the callback that awaits it
    timers,        \* pending topology waits of resume attempts
    ncloses,       \* close() calls made so far
    loadBalanced,  \* topology.loadBalanced
    crashed,       \* an exception escaped an event-loop turn (uncaught)
    options,       \* this.options of the ChangeStream: the consumer's options
    srv,           \* the oplog server: how far it has read for each cursor
    fc,            \* a FindCursor the consumer has made with find() and drives itself
    tw,            \* one _waitForTopologyConnected, with the clock it reads
    sv,            \* a Server: its state, operationCount and the calls made on it
    \* observations of the run, read by the properties only
    closeEmitted,  \* `close` events emitted by the ChangeStream so far
    endEmitted,    \* `end` events emitted by the ChangeStream so far
    obs,           \* the last turn: whether it was a stream() call, and its events
    tlog           \* the record of a consumer that writes down what it receives

\* The variables of the change stream, and all of them.
engine == <<mode, closed, cursor, cur, ncur, queue, listeners, stream, calls, rpcs,
            timers, ncloses, loadBalanced, crashed, options, srv, closeEmitted,
            endEmitted, obs, tlog>>

vars == <<engine, fc, tw, sv>>

\* A reply to an aggregate or a getMore: an error, or cursor.id, the batch,
\* cursor.postBatchResumeToken (0 when absent) and operationTime; pos is how far the
\* server has read for the cursor once it has replied, and wire the wire version of
\* the server the operation selected, which is 7 where nothing else is said.
Reply(err, id, batch, pbrt, operationTime, pos) ==
    [err |-> err, id |-> id, batch |-> batch, pbrt |-> pbrt,
     operationTime |-> operationTime, pos |-> pos, wire |-> MinOperationTimeWire]

\* The turn is not the arrival of a reply.
NoReply == [cur |-> 0, resp |-> Reply("none", "zero", <<>>, 0, 0, 0)]

\* The program state as one record; ev collects the events of the turn being computed,
\* out lists what the turn hands to the consumer, in order, reply is the reply the
\* turn processes and the cursor it is for, and stack holds the callback invocations
\* the turn has still to run.
State ==
    [mode |-> mode, closed |-> closed, cursor |-> cursor, cur |-> cur, ncur |-> ncur,
     queue |-> queue, listeners |-> listeners, stream |-> stream, calls |-> calls,
     rpcs |-> rpcs, timers |-> timers, ncloses |-> ncloses,
     loadBalanced |-> loadBalanced, crashed |-> crashed, options |-> options,
     srv |-> srv, closeEmitted |-> closeEmitted, endEmitted |-> endEmitted,
     ev |-> {}, out |-> <<>>, reply |-> NoReply, stack |-> <<>>]

\* AbstractCursor constructor: no id, empty buffer, flags false, no server (wire is
\* the wire version of the server, once there is one).  An id is
\* "none" (undefined), "live", "zero" (a zero read from a response) or "ZERO" (the
\* object Long.ZERO, which cleanupCursor stores).
NewCursor ==
    [id |-> "none", docs |-> <<>>, initialized |-> FALSE, closed |-> FALSE,
     killed |-> FALSE, server |-> FALSE, wire |-> 0]

\* ChangeStreamCursor constructor: the options are kept, startAfter or else resumeAfter
\* becomes the resume token (no listener is on the cursor yet to hear the setter's
\* event), hasReceived and postBatchResumeToken are undefined.
ChangeStreamCursor(o) ==
    [id |-> NewCursor.id, docs |-> NewCursor.docs, initialized |-> NewCursor.initialized,
     closed |-> NewCursor.closed, killed |-> NewCursor.killed, server |-> NewCursor.server,
     wire |-> NewCursor.wire,
     options |-> o,
     resumeToken |-> IF o.startAfter # 0 THEN o.startAfter ELSE o.resumeAfter,
     startAtOperationTime |-> o.startAtOperationTime,
     hasReceived |-> FALSE,
     postBatchResumeToken |-> 0]

\* No kCursorStream.  A stream has the cursor it reads, the closure variables of
\* makeCursorStream, and the 'data' and 'error' handlers the ChangeStream has on it.
NoStream ==
    [cur |-> 0, started |-> FALSE, needToClose |-> FALSE, destroyed |-> FALSE,
     data |-> 0, error |-> 0]

NewCall == [op |-> "none", n |-> 0, res |-> "none", closedDuring |-> FALSE]

NoObs == [op |-> "turn", ev |-> {}]

\* Callbacks as data.  A waiter is the callback given to the cursor's next():
\*   "next" / "hasNext" / "tryNext": the ChangeStream method of call `call`;
\*   "probe": newCursor.hasNext of the resume started for call `call`;
\*   "stream": readNext of the stream made on cursor `cur`.
Waiter(t, c, k) == [t |-> t, call |-> c, cur |-> k]

NoWaiter == Waiter("none", 0, 0)

\* The continuation of a cleanupCursor / cursor.close():
\*   "result":     () => callback(err, nextDocument(cursor))        (getMore branch)
\*   "initResult": the same inside kInit, whose caller recurses into next()
\*   "null":       () => callback(undefined, null)
\*   "csclose":    the callback of ChangeStream.close; w and err are its cb
\*   "streamErr":  the callback of the stream's _destroy(err)
After(t, k, w, e, b) == [t |-> t, cur |-> k, w |-> w, err |-> e, blocking |-> b]

NoAfter == After("none", 0, NoWaiter, "none", TRUE)

Rpc(kind, k, w, b, after) ==
    [kind |-> kind, cur |-> k, w |-> w, blocking |-> b, after |-> after]

StartRpc(s, r) == [s EXCEPT !.rpcs = @ (+) SetToBag({r})]

Tag(s, e) == [s EXCEPT !.ev = @ \cup {e}]

\* A delivery to the consumer made while kClosed was true, by what was delivered.
Late(what) ==
    CASE what = "change" -> "lateChange"
      [] what = "resumeTokenChanged" -> "lateResumeTokenChanged"
      [] OTHER -> "lateDocument"

\* The counters of the observations count up to MaxCount.
Count(n) == IF n < MaxCount THEN n + 1 ELSE n

\* The turn hands something to the consumer: an event, or a document to the callback
\* of a next / hasNext / tryNext; tok is the token it carries.
Out(s, e, x) == [s EXCEPT !.out = Append(@, [e |-> e, tok |-> x])]

\* What the turn handed to the consumer last is the resumeTokenChanged event that
\* carries the resume token of the engine's cursor.
Announced(s) ==
    /\ s.out # <<>>
    /\ s.cursor # 0
    /\ s.out[Len(s.out)] = [e |-> "resumeTokenChanged", tok |-> s.cur[s.cursor].resumeToken]

\* ChangeStream.emit(event).  The cursor's resumeTokenChanged, end and close events are
\* forwarded by the listeners _createChangeStreamCursor puts on every cursor it makes.
\* x is what the event carries: the token of resumeTokenChanged, the _id of the
\* document of `change`, 0 otherwise.
Emit(s, event, x) ==
    LET s1 == Out(s, event, x)
    IN  CASE event = "close" -> [s1 EXCEPT !.closeEmitted = Count(@)]
          [] event = "end" -> [s1 EXCEPT !.endEmitted = Count(@)]
          [] event \in {"change", "resumeTokenChanged"} /\ s.closed -> Tag(s1, Late(event))
          [] event = "change" /\ ~Announced(s) -> Tag(s1, "unannounced")
          [] OTHER -> s1

\* The consumer's callback of iterator call c is invoked with res; the turn's output
\* lists the document it hands over, or that the callback ran without one.
Complete(s, c, res) ==
    LET s1 == [s EXCEPT !.calls[c].n = Count(@), !.calls[c].res = res]
        s2 == IF res \in DocKinds THEN Out(s1, s.calls[c].op, Id(res))
              ELSE Out(s1, "callback", 0)
        s3 == IF res \in DocKinds /\ s.calls[c].op = "next" /\ ~Announced(s)
                THEN Tag(s2, "unannounced") ELSE s2
    IN  IF s.closed /\ res \in DocKinds THEN Tag(s3, Late("document")) ELSE s3

\* A callback is invoked: the invocation goes on top of the stack of the turn, which
\* Exec runs empty, so that a callback runs before whatever follows the call that
\* invoked it.  An invocation is a tuple, the callback's name first.
Call(s, task) == [s EXCEPT !.stack = <<task>> \o @]

\* An exception escapes the turn: nothing of it runs any more.
Throw(s) == [s EXCEPT !.crashed = TRUE, !.stack = <<>>]

\* ------------------------------------------------------------------ the cursor

\* cursorIsDead(cursor): !!cursorId && cursorId.isZero()
cursorIsDead(c) == c.id \in {"zero", "ZERO"}

\* completeCleanup() inside cleanupCursor
completeCleanup(s, after) == Call(Emit(s, "close", 0), <<"Run", after>>)

\* cleanupCursor(cursor, {error, needsToEmitClosed}, callback); needs is "default"
\* (undefined), "yes" or "no".  Sessions end synchronously and are left out.
cleanupCursor(s, k, error, needs, after) ==
    LET c == s.cur[k]
        needsToEmitClosed == IF needs = "default" THEN c.docs = <<>> ELSE needs = "yes"
    IN  IF error # "none" /\ s.loadBalanced /\ isNetworkError(error)
          THEN completeCleanup(s, after)
        ELSE IF c.id = "none" \/ cursorIsDead(c) \/ ~c.server
          THEN Call(IF needsToEmitClosed
                      THEN Emit([s EXCEPT !.cur[k].closed = TRUE, !.cur[k].id = "ZERO"],
                                "close", 0)
                      ELSE s,
                    <<"Run", after>>)
        ELSE StartRpc([s EXCEPT !.cur[k].killed = TRUE],
                      Rpc("killCursors", k, NoWaiter, TRUE, after))

\* next() with the test of cursorIsDead moved before the test of the buffer: a cursor
\* whose id is zero is cleaned up with documents still in its buffer.
next_deadFirst(s, k, blocking, w) ==
    LET c == s.cur[k]
    IN  IF c.closed THEN Call(s, <<"Deliver", w, "none", "null">>)
        ELSE IF cursorIsDead(c)
          THEN cleanupCursor(s, k, "none", "yes", After("null", k, w, "none", blocking))
        ELSE IF c.docs # <<>>
          THEN Call([s EXCEPT !.cur[k].docs = Tail(@)], <<"Deliver", w, "none", Head(c.docs)>>)
        ELSE IF c.id = "none"
          THEN StartRpc(s, Rpc("aggregate", k, w, blocking, NoAfter))
        ELSE StartRpc(s, Rpc("getMore", k, w, blocking, NoAfter))

\* next<T>(cursor, blocking, callback)
next(s, k, blocking, w) ==
    LET c == s.cur[k]
    IN  IF c.closed THEN Call(s, <<"Deliver", w, "none", "null">>)
        ELSE IF c.docs # <<>>
          THEN Call([s EXCEPT !.cur[k].docs = Tail(@)], <<"Deliver", w, "none", Head(c.docs)>>)
        ELSE IF c.id = "none"
          THEN StartRpc(s, Rpc("aggregate", k, w, blocking, NoAfter))
        ELSE IF cursorIsDead(c)
          THEN cleanupCursor(s, k, "none", "default", After("null", k, w, "none", blocking))
        ELSE StartRpc(s, Rpc("getMore", k, w, blocking, NoAfter))

\* AbstractCursor.close(callback)
AbstractCursor_close(s, k, after) ==
    cleanupCursor([s EXCEPT !.cur[k].closed = TRUE], k, "none",
                  IF s.cur[k].closed THEN "no" ELSE "yes", after)

\* AbstractCursor.next(callback); kId === Long.ZERO holds only once cleanupCursor has
\* stored that object, an id read from a response being another object
AbstractCursor_next(s, k, w) ==
    IF s.cur[k].id = "ZERO" THEN Call(s, <<"Deliver", w, "exhausted", "null">>)
    ELSE next(s, k, TRUE, w)

\* AbstractCursor.tryNext(callback)
AbstractCursor_tryNext(s, k, w) ==
    IF s.cur[k].id = "ZERO" THEN Call(s, <<"Deliver", w, "exhausted", "null">>)
    ELSE next(s, k, FALSE, w)

\* AbstractCursor.hasNext(callback)
AbstractCursor_hasNext(s, k, w) ==
    IF s.cur[k].id = "ZERO" THEN Call(s, <<"hasNextDone", w, "none", "false">>)
    ELSE IF s.cur[k].docs # <<>> THEN Call(s, <<"hasNextDone", w, "none", "true">>)
    ELSE next(s, k, TRUE, w)

\* ------------------------------------------------------------------ the engine

\* ChangeStream._streamEvents(cursor), past _setIsEmitter's check
streamEvents(s, k) ==
    LET s1 == [s EXCEPT !.mode = "emitter"]
        s2 == IF s1.stream.cur # 0 THEN s1
              ELSE [s1 EXCEPT !.stream = [NoStream EXCEPT !.cur = k, !.needToClose = TRUE]]
    IN  [s2 EXCEPT !.stream.data = @ + 1, !.stream.error = @ + 1]

\* ChangeStream._endStream(): removes the handlers and destroys the stream, whose
\* _destroy closes the cursor when needToClose
endStream(s) ==
    IF s.stream.cur = 0 THEN s
    ELSE LET s1 == [s EXCEPT !.stream = NoStream]
         IN  IF ~s.stream.destroyed /\ s.stream.needToClose
               THEN AbstractCursor_close(s1, s.stream.cur, NoAfter)
               ELSE s1

\* ChangeStream.close(callback).  The callback is data: cbt says which it is,
\*   "user"  the consumer's;
\*   "cwe"   () => callback && callback(error)        of _closeWithError;
\*   "drain" () => this._processResumeQueue(err)      of unresumableError.
ChangeStream_close(s, cbt, c, error) ==
    LET s1 == [s EXCEPT !.closed = TRUE]
    IN  IF s1.cursor = 0 THEN Call(s1, <<"closeCallback", cbt, c, error>>)
        ELSE AbstractCursor_close(s1, s1.cursor,
                                  After("csclose", s1.cursor, Waiter(cbt, c, 0), error, TRUE))

\* ChangeStream._closeWithError(error, callback); c = 0 stands for no callback
closeWithError(s, error, c) ==
    ChangeStream_close(IF c = 0 THEN Emit(s, "error", 0) ELSE s, "cwe", c, error)

\* unresumableError(err) inside _processError, where callback is that of call c
unresumableError(s, err, c) ==
    ChangeStream_close(IF c = 0 THEN Emit(s, "error", 0) ELSE s, "drain", 0, err)

\* set resumeToken(token) of ChangeStreamCursor: stores it and emits
\* resumeTokenChanged, which the ChangeStream forwards
setResumeToken(s, k, token) ==
    Emit([s EXCEPT !.cur[k].resumeToken = token], "resumeTokenChanged", token)

\* ChangeStreamCursor.cacheResumeToken(resumeToken)
cacheResumeToken(s, k, resumeToken) ==
    LET c == s.cur[k]
        s1 == IF c.docs = <<>> /\ c.postBatchResumeToken # 0
                THEN setResumeToken(s, k, c.postBatchResumeToken)
                ELSE setResumeToken(s, k, resumeToken)
    IN  [s1 EXCEPT !.cur[k].hasReceived = TRUE]

\* ChangeStream._processNewChange(change, callback)
processNewChange(s, change, c) ==
    IF s.closed THEN (IF c # 0 THEN Complete(s, c, "closedErr") ELSE s)
    ELSE IF change = "null" THEN closeWithError(s, "closedErr", c)
    ELSE IF change = "noid" THEN closeWithError(s, "noResumeToken", c)
    ELSE LET s1 == IF s.cursor # 0 THEN cacheResumeToken(s, s.cursor, Id(change)) ELSE s
             s2 == [s1 EXCEPT !.options.startAtOperationTime = 0]
         IN  IF c = 0 THEN Emit(s2, "change", Id(change)) ELSE Complete(s2, c, change)

\* _processError without cursor.close(): the cursor leaves the slot and stays open.
processError_noClose(s, error, c) ==
    IF s.closed THEN (IF c # 0 THEN Complete(s, c, "closedErr") ELSE s)
    ELSE IF s.cursor # 0 /\ isResumableError(error)
      THEN LET s1 == endStream([s EXCEPT !.cursor = 0])
           IN  [s1 EXCEPT !.timers = @ \cup {[old |-> s.cursor, call |-> c]}]
    ELSE closeWithError(s, error, c)

\* ChangeStream._processError(error, callback) up to the start of the topology wait
processError(s, error, c) ==
    IF s.closed THEN (IF c # 0 THEN Complete(s, c, "closedErr") ELSE s)
    ELSE IF s.cursor # 0 /\ isResumableError(error)
      THEN LET old == s.cursor
               s1 == endStream([s EXCEPT !.cursor = 0])
               s2 == AbstractCursor_close(s1, old, NoAfter)
           IN  [s2 EXCEPT !.timers = @ \cup {[old |-> old, call |-> c]}]
    ELSE closeWithError(s, error, c)

\* One round of the loop of ChangeStream._processResumeQueue(err): Denque.pop takes
\* the entry pushed last; the loop goes on after the request has returned
processResumeQueue(s, err) ==
    IF s.queue = <<>> THEN s
    ELSE LET q == s.queue[Len(s.queue)]
             s1 == [s EXCEPT !.queue = SubSeq(@, 1, Len(@) - 1)]
         IN  IF err = "none" /\ s1.closed THEN Call(s1, <<"request", q, "closedErr">>)
             ELSE IF err = "none" /\ s1.cursor = 0
               THEN Call(s1, <<"request", q, "noCursorErr">>)
             ELSE Call(Call(s1, <<"processResumeQueue", err>>), <<"request", q, err>>)

\* A close() of the consumer ("close"), a close on a cursor error ("error") or on a
\* change ("change"), or a resume attempt ("resume") has concluded: the resume queue
\* is empty, or is not.
concluded(s, what) ==
    Tag(s, CASE what = "close" -> IF s.queue = <<>> THEN "closeDrained" ELSE "closeLeft"
             [] what = "error" -> IF s.queue = <<>> THEN "errorDrained" ELSE "errorLeft"
             [] what = "change" -> IF s.queue = <<>> THEN "changeDrained" ELSE "changeLeft"
             [] what = "resume" -> IF s.queue = <<>> THEN "resumeDrained" ELSE "resumeLeft")

\* resumeWithCursor(newCursor) inside _processError
resumeWithCursor(s, k) ==
    processResumeQueue(Call([s EXCEPT !.cursor = k], <<"concluded", "resume">>), "none")

\* (err, cursor) => { if (err || !cursor) return cb(err); cursor.<t>(...) }
withCursor(s, t, c, err) ==
    LET k == s.cursor
    IN  IF err # "none" THEN Complete(s, c, err)
        ELSE IF k = 0 THEN Complete(s, c, "undefined")
        ELSE CASE t = "next" -> AbstractCursor_next(s, k, Waiter("next", c, k))
               [] t = "hasNext" -> AbstractCursor_hasNext(s, k, Waiter("hasNext", c, k))
               [] t = "tryNext" -> AbstractCursor_tryNext(s, k, Waiter("tryNext", c, k))

\* ChangeStream._getCursor(callback)
getCursor(s, t, c) ==
    IF s.closed THEN withCursor(s, t, c, "closedErr")
    ELSE IF s.cursor # 0 THEN withCursor(s, t, c, "none")
    ELSE [s EXCEPT !.queue = Append(@, Waiter(t, c, 0))]

\* The head shared by ChangeStream.next / hasNext / tryNext (t): _setIsIterator, which
\* throws to the caller on a mode conflict, then _getCursor with the method's callback
ChangeStream_call(s, t, c) ==
    IF s.mode = "emitter"
      THEN Tag([s EXCEPT !.calls[c].res = "modeConflict"], "modeConflict")
      ELSE getCursor([s EXCEPT !.mode = "iterator"], t, c)

\* ChangeStream.next(cb)
ChangeStream_next(s, c) == ChangeStream_call(s, "next", c)

\* ------------------------------------------------------------------ the stream

\* process.nextTick(callback): it runs when the rest of the turn has run
NextTick(s, task) == [s EXCEPT !.stack = @ \o <<task>>]

\* readable.destroy(err) from readNext; a stream already destroyed ignores it
destroy(s, k, err) ==
    IF s.stream.cur # k \/ s.stream.destroyed THEN s
    ELSE LET s1 == [s EXCEPT !.stream.destroyed = TRUE]
             after == After("streamErr", k, NoWaiter, err, TRUE)
         IN  IF s.stream.needToClose THEN AbstractCursor_close(s1, k, after)
             ELSE Call(s1, <<"Run", after>>)

\* readNext() of makeCursorStream
readNext(s, k) ==
    next(IF s.stream.cur = k THEN [s EXCEPT !.stream.needToClose = FALSE] ELSE s,
         k, TRUE, Waiter("stream", 0, k))

\* The callback readNext gives to next(); a pushed document is emitted as 'data' to
\* _processNewChange, if the handler is on the stream, before readNext reads on
readNextCallback(s, k, err, result) ==
    LET mine == s.stream.cur = k
        s1 == IF mine
                THEN [s EXCEPT !.stream.needToClose =
                         IF err # "none" THEN ~s.cur[k].closed ELSE result # "null"]
                ELSE s
    IN  IF err = "srvclosed" THEN AbstractCursor_close(s1, k, NoAfter)
        ELSE IF err = "interrupted" THEN s1
        ELSE IF err # "none" THEN destroy(s1, k, err)
        ELSE IF result = "null" THEN s1
        ELSE IF ~mine \/ s1.stream.destroyed THEN AbstractCursor_close(s1, k, NoAfter)
        ELSE IF s1.stream.data = 0 THEN Call(s1, <<"readNext", k>>)
        ELSE processNewChange(Call(s1, <<"readNext", k>>), result, 0)

\* The stream emits 'error': to _processError once for each handler _streamEvents has
\* put on it, the handlers that were on it when the event was emitted running one
\* after the other, and to nobody (an uncaught exception) once _endStream has removed
\* them
streamError(s, k, err) ==
    IF s.stream.cur = k /\ s.stream.error > 0
      THEN LET others == [i \in 1 .. s.stream.error - 1 |-> <<"processError", err>>]
           IN  processError([s EXCEPT !.stack = others \o @], err, 0)
      ELSE Throw(s)

\* ------------------------------------------------------------------ the callbacks

\* The callbacks cleanupCursor is given.
Run(s, after) ==
    LET k == after.cur
        doc == IF s.cur[k].docs = <<>> THEN "null" ELSE Head(s.cur[k].docs)
        shifted == IF doc = "null" THEN s ELSE [s EXCEPT !.cur[k].docs = Tail(@)]
    IN  CASE after.t = "none" -> s
          [] after.t = "result" -> Call(shifted, <<"Deliver", after.w, after.err, doc>>)
          [] after.t = "initResult" ->
                IF after.err # "none" THEN Call(shifted, <<"Deliver", after.w, after.err, "null">>)
                ELSE IF doc # "null" THEN Call(shifted, <<"Deliver", after.w, "none", doc>>)
                ELSE next(s, k, after.blocking, after.w)
          [] after.t = "null" -> Call(s, <<"Deliver", after.w, "none", "null">>)
          [] after.t = "csclose" ->
                \* the callback ChangeStream.close gives to cursor.close
                Call([endStream(s) EXCEPT !.cursor = 0],
                     <<"closeCallback", after.w.t, after.w.call, after.err>>)
          [] after.t = "streamErr" -> NextTick(s, <<"streamError", k, after.err>>)

\* done(err, boolean) of AbstractCursor.hasNext: the consumer's callback, or the probe
\* callback of the resume branch of _processError
hasNextDone(s, w, err, res) ==
    IF w.t = "hasNext" THEN Complete(s, w.call, IF err # "none" THEN err ELSE res)
    ELSE IF err # "none" THEN unresumableError(s, err, w.call)
    ELSE resumeWithCursor(s, w.cur)

\* The callback given to the cursor's next() is invoked with (err, val).
Deliver(s, w, err, val) ==
    CASE w.t = "next" ->
            \* ChangeStream.next: cursor.next((error, change) => ...)
            IF err # "none"
              THEN processError([s EXCEPT !.queue = Append(@, Waiter("retry", w.call, 0))],
                                err, w.call)
              ELSE processNewChange(s, val, w.call)
      [] w.t = "tryNext" -> Complete(s, w.call, IF err # "none" THEN err ELSE val)
      [] w.t \in {"hasNext", "probe"} ->
            \* AbstractCursor.hasNext: next(this, true, (err, doc) => ...)
            IF err # "none" THEN hasNextDone(s, w, err, "false")
            ELSE IF val # "null"
              THEN hasNextDone([s EXCEPT !.cur[w.cur].docs = <<val>> \o @], w, "none", "true")
            ELSE hasNextDone(s, w, "none", "false")
      [] w.t = "stream" -> readNextCallback(s, w.cur, err, val)

\* cb of ChangeStream.close
closeCallback(s, cbt, c, error) ==
    CASE cbt = "user" -> concluded(s, "close")
      [] cbt = "cwe" ->
            concluded(IF c # 0 THEN Complete(s, c, error) ELSE s,
                      IF error \in {"closedErr", "noResumeToken"} THEN "change" ELSE "error")
      [] cbt = "drain" -> processResumeQueue(Call(s, <<"concluded", "resume">>), error)

\* A queued continuation is invoked with (err, this.cursor): the retry pushed by
\* ChangeStream.next, () => this.next(cb), or the callback given to _getCursor
request(s, q, err) ==
    IF q.t = "retry" THEN ChangeStream_next(s, q.call)
    ELSE withCursor(s, q.t, q.call, err)

\* The invocation on top of the stack runs.
Handle(s, task) ==
    CASE task[1] = "Run" -> Run(s, task[2])
      [] task[1] = "Deliver" -> Deliver(s, task[2], task[3], task[4])
      [] task[1] = "hasNextDone" -> hasNextDone(s, task[2], task[3], task[4])
      [] task[1] = "closeCallback" -> closeCallback(s, task[2], task[3], task[4])
      [] task[1] = "request" -> request(s, task[2], task[3])
      [] task[1] = "processResumeQueue" -> processResumeQueue(s, task[2])
      [] task[1] = "concluded" -> concluded(s, task[2])
      [] task[1] = "readNext" -> readNext(s, task[2])
      [] task[1] = "streamError" -> streamError(s, task[2], task[3])
      [] task[1] = "processError" -> processError(s, task[2], 0)

\* A turn runs until no invocation is left.
RECURSIVE Exec(_)
Exec(s) ==
    IF s.stack = <<>> THEN s
    ELSE Exec(Handle([s EXCEPT !.stack = Tail(@)], Head(s.stack)))

\* ------------------------------------------------------------------ the consumer's calls

\* A stream() that went through _setIsEmitter, as _streamEvents does.
stream_setIsEmitter(s) ==
    IF s.mode = "iterator" THEN Tag(s, "modeConflict")
    ELSE LET s1 == [s EXCEPT !.mode = "emitter"]
         IN  IF s1.cursor = 0 THEN Tag(s1, "noCursorErr") ELSE s1

\* ChangeStream.stream(options): checks the cursor slot and returns a new Readable on
\* the cursor, which belongs to the consumer; this.streamOptions is not modelled
ChangeStream_stream(s) ==
    IF s.cursor = 0 THEN Tag(s, "noCursorErr") ELSE s

\* emitter.on('change', listener): the constructor's 'newListener' handler runs before
\* the listener is added, and a throw from it leaves the listener out
newListener(s) ==
    IF s.cursor # 0 /\ s.listeners = 0
      THEN IF s.mode = "iterator" THEN Tag(s, "modeConflict")
           ELSE [streamEvents(s, s.cursor) EXCEPT !.listeners = @ + 1]
      ELSE [s EXCEPT !.listeners = @ + 1]

\* emitter.off('change', listener): the listener is removed, then the constructor's
\* 'removeListener' handler runs
removeListener(s) ==
    LET s1 == [s EXCEPT !.listeners = @ - 1]
    IN  IF s1.listeners = 0 /\ s1.cursor # 0 /\ s1.stream.cur # 0
          THEN [s1 EXCEPT !.stream.data = 0]
          ELSE s1

\* ChangeStream._createChangeStreamCursor(options): a new cursor instance; with a
\* `change` listener registered it calls _streamEvents, whose _setIsEmitter throws in
\* iterator mode (inside the timer callback: uncaught)
createChangeStreamCursor(s, o) ==
    LET k == s.ncur + 1
        s1 == [s EXCEPT !.ncur = k, !.cur[k] = ChangeStreamCursor(o)]
    IN  IF s1.listeners > 0
          THEN IF s1.mode = "iterator" THEN Throw(s1)
               ELSE streamEvents(s1, k)
          ELSE s1

\* resumeOptions without the loop that deletes the three keys from the result: the key
\* of the resume is set next to the keys the options had.
resumeOptions_keepKeys(c) ==
    IF c.resumeToken # 0
      THEN IF c.options.startAfter # 0 /\ ~c.hasReceived
             THEN [c.options EXCEPT !.startAfter = c.resumeToken]
             ELSE [c.options EXCEPT !.resumeAfter = c.resumeToken]
    ELSE IF c.startAtOperationTime # 0
      THEN [c.options EXCEPT !.startAtOperationTime = c.startAtOperationTime]
    ELSE c.options

\* resumeOptions that always names the token resumeAfter.
resumeOptions_resumeAfter(c) ==
    IF c.resumeToken # 0 THEN Options(c.resumeToken, 0, 0)
    ELSE IF c.startAtOperationTime # 0 THEN Options(0, 0, c.startAtOperationTime)
    ELSE c.options

\* maxWireVersion(cursor.server): the wire version of the cursor's server, 0 when it
\* has none.
maxWireVersion(c) == c.wire

\* get resumeOptions() of ChangeStreamCursor: the three keys are deleted and one is
\* set again, the resume token first
resumeOptions(c) ==
    IF c.resumeToken # 0 \/ c.startAtOperationTime # 0
      THEN IF c.resumeToken # 0
             THEN IF c.options.startAfter # 0 /\ ~c.hasReceived
                    THEN Options(0, c.resumeToken, 0)
                    ELSE Options(c.resumeToken, 0, 0)
           ELSE IF maxWireVersion(c) >= MinOperationTimeWire
             THEN Options(0, 0, c.startAtOperationTime)
           ELSE NoOptions
      ELSE c.options

\* The callback _processError gives to _waitForTopologyConnected, for the wait tm
waitDone(s, tm, err) ==
    IF err # "none" THEN unresumableError(s, err, tm.call)
    ELSE LET s1 == createChangeStreamCursor(s, resumeOptions(s.cur[tm.old]))
             k == s1.ncur
         IN  IF s1.crashed THEN s1
             ELSE IF tm.call = 0 THEN resumeWithCursor(s1, k)
             ELSE AbstractCursor_hasNext(s1, k, Waiter("probe", tm.call, k))

\* _processBatch without the promotion: the postBatchResumeToken is kept, and an empty
\* batch leaves the resume token alone.
processBatch_keepOnly(s, k, resp) ==
    IF resp.pbrt # 0 THEN [s EXCEPT !.cur[k].postBatchResumeToken = resp.pbrt] ELSE s

\* ChangeStreamCursor._processBatch(response) of cursor k: a postBatchResumeToken is
\* kept, and becomes the resume token when the batch is empty
processBatch(s, k, resp) ==
    IF resp.pbrt # 0
      THEN LET s1 == [s EXCEPT !.cur[k].postBatchResumeToken = resp.pbrt]
           IN  IF resp.batch = <<>> THEN setResumeToken(s1, k, resp.pbrt) ELSE s1
      ELSE s

\* The aggregate of ChangeStreamCursor._initialize returns: its callback, then the
\* callback AbstractCursor[kInit] gave to _initialize
initialized(s, r, resp) ==
    LET k == r.cur
    IN  IF resp.err # "none"
          THEN cleanupCursor([s EXCEPT !.cur[k].initialized = TRUE], k, resp.err, "default",
                             After("initResult", k, r.w, resp.err, r.blocking))
          ELSE LET s0 == IF s.cur[k].startAtOperationTime = 0
                              /\ resp.wire >= MinOperationTimeWire
                           THEN [s EXCEPT !.cur[k].startAtOperationTime = resp.operationTime]
                           ELSE s
                   s1 == processBatch(s0, k, resp)
                   s2 == [s1 EXCEPT !.cur[k].server = TRUE, !.cur[k].wire = resp.wire,
                                    !.cur[k].id = resp.id,
                                    !.cur[k].docs = resp.batch,
                                    !.cur[k].initialized = TRUE]
               IN  IF resp.id = "zero"
                     THEN cleanupCursor(s2, k, "none", "default",
                                        After("initResult", k, r.w, "none", r.blocking))
                     ELSE next(s2, k, r.blocking, r.w)

\* The callback of the getMore without the test of `blocking`: an empty batch sends
\* the caller back into next(), whoever it is.
gotMore_blocking(s, r, resp) ==
    LET k == r.cur
    IN  IF resp.err # "none"
          THEN cleanupCursor(s, k, resp.err, "default",
                             After("result", k, r.w, resp.err, r.blocking))
          ELSE LET s1 == processBatch(s, k, resp)
                   s2 == [s1 EXCEPT !.cur[k].docs = resp.batch, !.cur[k].id = resp.id]
               IN  IF resp.id = "zero"
                     THEN cleanupCursor(s2, k, "none", "default",
                                        After("result", k, r.w, "none", r.blocking))
                     ELSE next(s2, k, r.blocking, r.w)

\* The getMore of next() returns: ChangeStreamCursor._getMore's callback, then the
\* callback next() gave to cursor._getMore
gotMore(s, r, resp) ==
    LET k == r.cur
    IN  IF resp.err # "none"
          THEN cleanupCursor(s, k, resp.err, "default",
                             After("result", k, r.w, resp.err, r.blocking))
          ELSE LET s1 == processBatch(s, k, resp)
                   s2 == [s1 EXCEPT !.cur[k].docs = resp.batch, !.cur[k].id = resp.id]
               IN  IF resp.id = "zero"
                     THEN cleanupCursor(s2, k, "none", "default",
                                        After("result", k, r.w, "none", r.blocking))
                   ELSE IF resp.batch = <<>> /\ ~r.blocking
                     THEN Deliver(s2, r.w, "none", "null")
                   ELSE next(s2, k, r.blocking, r.w)

Failures == {Reply(e, "zero", <<>>, 0, 0, 0) : e \in ErrKinds}

\* What a server answers to an aggregate or a getMore, nothing being assumed of the
\* order of its events: every reply has a postBatchResumeToken (servers from 4.0.7
\* on), and every token it sends is the same.
Responses ==
    Failures \cup {Reply("none", id, batch, 1, 1, 0) :
                      id \in {"live", "zero"}, batch \in Batches}

\* Where the server starts to read for a $changeStream stage: after the token, after
\* the operation time, or where the oplog stands when the stream opens.
StartOf(o) ==
    IF o.startAfter # 0 THEN o.startAfter
    ELSE IF o.resumeAfter # 0 THEN o.resumeAfter
    ELSE IF o.startAtOperationTime # 0 THEN o.startAtOperationTime
    ELSE 1

\* The server rejects a stage that has more than one of the three keys.
Exclusive(o) ==
    Cardinality({key \in {"resumeAfter", "startAfter", "startAtOperationTime"} :
                   o[key] # 0}) <= 1

\* The n events that follow position from; with a pipeline that projects _id away,
\* n changes that lack it.
EventsAfter(from, n, stripped) == [i \in 1 .. n |-> IF stripped THEN "noid" ELSE Doc(from + i)]

\* What the oplog server answers to the RPC r: an error, or the next events in order,
\* as many as it likes, with the position it has read to as postBatchResumeToken or
\* without one, and with the cursor left open or exhausted.
OplogReplies(r) ==
    LET from == IF r.kind = "aggregate" THEN StartOf(cur[r.cur].options) ELSE srv[r.cur]
        most == IF MaxToken - from < MaxReply THEN MaxToken - from ELSE MaxReply
    IN  Failures \cup
        IF r.kind = "aggregate" /\ ~Exclusive(cur[r.cur].options) THEN {}
        ELSE {Reply("none", id, EventsAfter(from, n, stripped),
                    IF withToken THEN from + n ELSE 0, from, from + n) :
                id \in {"live", "zero"}, n \in 0 .. most, stripped \in BOOLEAN,
                withToken \in BOOLEAN}

\* ------------------------------------------------------------------ the turns

\* The documents a turn has delivered, by their tokens: out is what the turn handed
\* to the consumer.
Delivered(out) ==
    LET docs == SelectSeq(out, LAMBDA x : x.e \in {"change", "next", "tryNext"})
    IN  [i \in 1 .. Len(docs) |-> docs[i].tok]

\* The token of the document delivered last, before which it was last.
LastDelivered(last, out) ==
    LET d == Delivered(out) IN IF d = <<>> THEN last ELSE d[Len(d)]

Commit(r, op) ==
    /\ mode' = r.mode
    /\ closed' = r.closed
    /\ cursor' = r.cursor
    /\ cur' = r.cur
    /\ ncur' = r.ncur
    /\ queue' = r.queue
    /\ listeners' = r.listeners
    /\ stream' = r.stream
    /\ calls' = r.calls
    /\ rpcs' = r.rpcs
    /\ timers' = r.timers
    /\ ncloses' = r.ncloses
    /\ loadBalanced' = r.loadBalanced
    /\ crashed' = r.crashed
    /\ options' = r.options
    /\ srv' = r.srv
    /\ closeEmitted' = r.closeEmitted
    /\ endEmitted' = r.endEmitted
    /\ fc' = fc
    /\ tw' = tw
    /\ sv' = sv
    /\ obs' = [op |-> op, ev |-> r.ev]
    /\ tlog' = IF tlog.on
                 THEN [on |-> TRUE, last |-> LastDelivered(tlog.last, r.out),
                       out |-> r.out, reply |-> r.reply]
                 ELSE tlog

\* ------------------------------------------------------------------ FindCursor

\* The flags addCursorFlag takes (CURSOR_FLAGS), two of them.
CursorFlags == {"tailable", "noCursorTimeout"}

\* new FindCursor(topology, namespace, filter, options).  AbstractCursor's constructor
\* copies readPreference, readConcern, batchSize, comment, maxTimeMS and the session
\* into kOptions; FindCursor keeps the options object itself as kBuiltOptions.  A flag
\* is "unset", "true" or "false"; an option is 0 (not set) or the value 1; kTransform
\* counts the transforms composed; the session is "none", one the consumer passed
\* ("explicit") or one the cursor started ("implicit"), and hasEnded tells whether the
\* session the cursor has, or had last, has been ended.  rpc is the command in flight
\* and after the callback that waits for a killCursors, waiter is the call whose
\* callback is pending (next, hasNext or close), and stack holds the callback
\* invocations a turn has still to run.  What the consumer sees: calls counts the
\* mutator calls it has made, last is the call or callback that ran last, thrown what
\* that call threw, got what the callback of a call received last, emitted the
\* `close` events of the cursor, ended the endSession() calls on the session the
\* cursor has, and cleanup the last cleanupCursor of the turn, as it was entered; the
\* last four are kept only when watch is set.
NoCleanup ==
    [ran |-> FALSE, error |-> "none", needs |-> "default", id |-> "none",
     server |-> FALSE, docs |-> 0, closed |-> FALSE]

FindCursor(tailable, explicit) ==
    [watch |-> FALSE, id |-> "none", docs |-> <<>>, initialized |-> FALSE, closed |-> FALSE,
     killed |-> FALSE, server |-> FALSE,
     session |-> IF explicit THEN "explicit" ELSE "none", hasEnded |-> FALSE,
     kOptions |-> [tailable |-> "unset", noCursorTimeout |-> "unset", batchSize |-> 0,
                   maxTimeMS |-> 0, readPreference |-> 0, readConcern |-> 0],
     kBuiltOptions |-> [tailable |-> tailable, limit |-> 0, skip |-> 0, sort |-> 0],
     kTransform |-> 0, numReturned |-> 0,
     rpc |-> "none", after |-> <<"none">>, waiter |-> "none", stack |-> <<>>,
     calls |-> 0, last |-> "none", thrown |-> "none", got |-> "none",
     emitted |-> 0, ended |-> 0, cleanup |-> NoCleanup]

\* A call of the consumer throws e, or returns.
Throws(c, op, e) == [c EXCEPT !.last = op, !.thrown = e]
Returns(c, op) == [c EXCEPT !.last = op, !.thrown = "none"]

\* The consumer makes one more mutator call.
Mutator(c) == [c EXCEPT !.calls = @ + 1]

\* An assertion that lets every cursor pass.
assertNothing(c) == FALSE

\* assertUninitialized(cursor) throws MongoCursorInUseError
assertUninitialized(c) == c.initialized

\* addCursorFlag(flag, value), with a flag of CURSOR_FLAGS and a boolean
addCursorFlag(c, flag, value) ==
    IF assertUninitialized(c) THEN Throws(c, "addCursorFlag", "inUse")
    ELSE Returns([c EXCEPT !.kOptions[flag] = value], "addCursorFlag")

\* map(transform)
map(c) ==
    IF assertUninitialized(c) THEN Throws(c, "map", "inUse")
    ELSE Returns([c EXCEPT !.kTransform = Count(@)], "map")

\* withReadPreference(readPreference), with a ReadPreference
withReadPreference(c, value) ==
    IF assertUninitialized(c) THEN Throws(c, "withReadPreference", "inUse")
    ELSE Returns([c EXCEPT !.kOptions.readPreference = value], "withReadPreference")

\* withReadConcern(readConcern), with a read concern that resolves
withReadConcern(c, value) ==
    IF assertUninitialized(c) THEN Throws(c, "withReadConcern", "inUse")
    ELSE Returns([c EXCEPT !.kOptions.readConcern = value], "withReadConcern")

\* maxTimeMS(value), with a number
maxTimeMS(c, value) ==
    IF assertUninitialized(c) THEN Throws(c, "maxTimeMS", "inUse")
    ELSE Returns([c EXCEPT !.kOptions.maxTimeMS = value], "maxTimeMS")

\* batchSize(value), with a number
batchSize(c, value) ==
    IF assertUninitialized(c) THEN Throws(c, "batchSize", "inUse")
    ELSE IF c.kOptions.tailable = "true" THEN Throws(c, "batchSize", "tailable")
    ELSE Returns([c EXCEPT !.kOptions.batchSize = value], "batchSize")

\* FindCursor.sort(sort, direction)
sort(c, value) ==
    IF assertUninitialized(c) THEN Throws(c, "sort", "inUse")
    ELSE IF c.kBuiltOptions.tailable THEN Throws(c, "sort", "tailable")
    ELSE Returns([c EXCEPT !.kBuiltOptions.sort = value], "sort")

\* FindCursor.limit(value), with a number
limit(c, value) ==
    IF assertUninitialized(c) THEN Throws(c, "limit", "inUse")
    ELSE IF c.kBuiltOptions.tailable THEN Throws(c, "limit", "tailable")
    ELSE Returns([c EXCEPT !.kBuiltOptions.limit = value], "limit")

\* FindCursor.skip(value), with a number
skip(c, value) ==
    IF assertUninitialized(c) THEN Throws(c, "skip", "inUse")
    ELSE IF c.kBuiltOptions.tailable THEN Throws(c, "skip", "tailable")
    ELSE Returns([c EXCEPT !.kBuiltOptions.skip = value], "skip")

\* Whether the find command the cursor sends is tailable: FindCursor._initialize lays
\* the cursor options over the built options.
Tailable(c) ==
    IF c.kOptions.tailable # "unset" THEN c.kOptions.tailable = "true"
    ELSE c.kBuiltOptions.tailable

\* rewind() that leaves the session on the cursor.
rewind_keepSession(c) ==
    IF ~c.initialized THEN Returns(c, "rewind")
    ELSE Returns([c EXCEPT !.id = "none", !.docs = <<>>, !.closed = FALSE,
                           !.killed = FALSE, !.initialized = FALSE], "rewound")

\* One more event or call is counted, for the consumer that watches the cursor.
Tally(c, n) == IF c.watch THEN Count(n) ELSE n

\* The callback of a call receives x.
Got(c, x) == IF c.watch THEN [c EXCEPT !.got = x] ELSE c

\* session.endSession() of a session the cursor owns
endSession(c) ==
    IF c.session = "implicit" THEN [c EXCEPT !.hasEnded = TRUE, !.ended = Tally(c, @)]
    ELSE c

\* rewind()
rewind(c) ==
    IF ~c.initialized THEN Returns(c, "rewind")
    ELSE LET c1 == [c EXCEPT !.id = "none", !.docs = <<>>, !.closed = FALSE,
                             !.killed = FALSE, !.initialized = FALSE]
             c2 == IF c1.session = "none" THEN c1
                   ELSE [(IF ~c1.hasEnded THEN endSession(c1) ELSE c1)
                            EXCEPT !.session = "none"]
         IN  Returns(c2, "rewound")

\* A callback of the cursor is invoked: it runs before whatever follows the call that
\* invoked it.
FCall(c, task) == [c EXCEPT !.stack = <<task>> \o @]

\* The callback of the consumer's call is invoked with (err, doc).  The callback
\* hasNext gives to next() puts the document back and answers true or false.
done(c, err, doc) ==
    LET c1 == [c EXCEPT !.waiter = "none"]
    IN  IF err # "none" THEN Got(c1, "error")
        ELSE CASE c.waiter = "hasNext" ->
                    IF doc # "null" THEN Got([c1 EXCEPT !.docs = <<doc>> \o @], "true")
                    ELSE Got(c1, "false")
               [] c.waiter = "close" -> Got(c1, "closed")
               [] OTHER -> Got(c1, doc)

\* completeCleanup() inside cleanupCursor
FindCursor_completeCleanup(c, cb) ==
    FCall([endSession(c) EXCEPT !.emitted = Tally(c, @)], cb)

\* cleanupCursor without the test for a network error on a load-balanced topology
FindCursor_cleanupCursor_noPin(c, error, needs, cb) ==
    LET needsToEmitClosed == IF needs = "default" THEN c.docs = <<>> ELSE needs = "yes"
        c0 == IF ~c.watch THEN c
              ELSE [c EXCEPT !.cleanup = [ran |-> TRUE, error |-> error, needs |-> needs,
                                          id |-> c.id, server |-> c.server,
                                          docs |-> Len(c.docs), closed |-> c.closed]]
    IN  IF c.id = "none" \/ ~c.server \/ cursorIsDead(c)
          THEN LET c1 == IF needsToEmitClosed
                           THEN [c0 EXCEPT !.closed = TRUE, !.id = "ZERO",
                                           !.emitted = Tally(c, @)]
                           ELSE c0
               IN  FCall(endSession(c1), cb)
        ELSE [c0 EXCEPT !.killed = TRUE, !.rpc = "killCursors", !.after = cb]

\* cleanupCursor(cursor, {error, needsToEmitClosed}, callback); needs is "default"
\* (undefined), "yes" or "no", and cb the callback, as data.
FindCursor_cleanupCursor(c, error, needs, cb) ==
    LET needsToEmitClosed == IF needs = "default" THEN c.docs = <<>> ELSE needs = "yes"
        c0 == IF ~c.watch THEN c
              ELSE [c EXCEPT !.cleanup = [ran |-> TRUE, error |-> error, needs |-> needs,
                                          id |-> c.id, server |-> c.server,
                                          docs |-> Len(c.docs), closed |-> c.closed]]
    IN  IF error # "none" /\ loadBalanced /\ isNetworkError(error)
          THEN FindCursor_completeCleanup(c0, cb)
        ELSE IF c.id = "none" \/ ~c.server \/ cursorIsDead(c)
          THEN LET c1 == IF needsToEmitClosed
                           THEN [c0 EXCEPT !.closed = TRUE, !.id = "ZERO",
                                           !.emitted = Tally(c, @)]
                           ELSE c0
               IN  FCall(endSession(c1), cb)
        ELSE [c0 EXCEPT !.killed = TRUE, !.rpc = "killCursors", !.after = cb]

\* AbstractCursor.close(callback)
FindCursor_close(c, cb) ==
    FindCursor_cleanupCursor([c EXCEPT !.closed = TRUE], "none",
                             IF c.closed THEN "no" ELSE "yes", cb)

\* next(cursor, true, callback) on a FindCursor, whose _getMore closes the cursor
\* instead when the limit has been returned, with next()'s callback of the getMore
\* as the callback of the close
FindCursor_next(c) ==
    IF c.closed THEN done(c, "none", "null")
    ELSE IF c.docs # <<>> THEN done([c EXCEPT !.docs = Tail(@)], "none", Head(c.docs))
    ELSE IF c.id = "none"
      THEN [c EXCEPT !.session = IF @ = "none" THEN "implicit" ELSE @,
                     !.hasEnded = IF c.session = "none" THEN FALSE ELSE @,
                     !.ended = IF c.session = "none" THEN 0 ELSE @,
                     !.rpc = "find"]
    ELSE IF cursorIsDead(c) THEN FindCursor_cleanupCursor(c, "none", "default", <<"null">>)
    ELSE IF c.numReturned > 0 /\ c.kBuiltOptions.limit > 0
            /\ c.kBuiltOptions.limit - c.numReturned <= 0
      THEN FindCursor_close(c, <<"gotMore">>)
    ELSE [c EXCEPT !.rpc = "getMore"]

\* The callback kInit gives to _initialize runs: the find has returned
foundFirst(c, resp) ==
    IF resp.err # "none"
      THEN FindCursor_cleanupCursor([c EXCEPT !.initialized = TRUE], resp.err, "default",
                                    <<"initResult", resp.err>>)
      ELSE LET c1 == [c EXCEPT !.server = TRUE, !.id = resp.id, !.docs = resp.batch,
                               !.numReturned = Len(resp.batch), !.initialized = TRUE]
           IN  IF resp.id = "zero"
                 THEN FindCursor_cleanupCursor(c1, "none", "default",
                                               <<"initResult", "none">>)
                 ELSE FindCursor_next(c1)

\* The callback next() gives to _getMore runs with an error, with a response, or (from
\* the close of a cursor that has returned its limit) with neither
foundMore(c, resp) ==
    LET c1 == IF resp.err = "none" /\ resp.id # "none"
                THEN [c EXCEPT !.docs = resp.batch, !.id = resp.id,
                               !.numReturned = IF resp.batch = <<>> THEN @ ELSE Count(@)]
                ELSE c
    IN  IF resp.err # "none" \/ cursorIsDead(c1)
          THEN FindCursor_cleanupCursor(c1, resp.err, "default", <<"result", resp.err>>)
          ELSE FindCursor_next(c1)

\* What the server answers to a find or a getMore.
FindReplies ==
    {[err |-> "fatal", id |-> "zero", batch |-> <<>>]} \cup
    {[err |-> "none", id |-> id, batch |-> batch] :
        id \in {"live", "zero"}, batch \in {<<>>, <<Doc(1)>>}}

\* The callback a cleanupCursor was given runs.
FindCursor_run(c, cb) ==
    LET doc == IF c.docs = <<>> THEN "null" ELSE Head(c.docs)
        shifted == IF doc = "null" THEN c ELSE [c EXCEPT !.docs = Tail(@)]
    IN  CASE cb[1] = "done" -> done(c, "none", "null")
          [] cb[1] = "null" -> done(c, "none", "null")
          [] cb[1] = "result" -> done(shifted, cb[2], doc)
          [] cb[1] = "initResult" ->
                IF cb[2] # "none" THEN done(shifted, cb[2], "null")
                ELSE IF doc # "null" THEN done(shifted, "none", doc)
                ELSE FindCursor_next(c)
          [] cb[1] = "gotMore" ->
                foundMore(c, [err |-> "none", id |-> "none", batch |-> <<>>])
          [] OTHER -> c

\* The callbacks a turn of the cursor has invoked run, one after the other.
RECURSIVE FindCursor_exec(_)
FindCursor_exec(c) ==
    IF c.stack = <<>> THEN c
    ELSE FindCursor_exec(FindCursor_run([c EXCEPT !.stack = Tail(@)], Head(c.stack)))

\* A call of the consumer or a callback of the event loop starts on the cursor.
Turn(c, waiter) == [c EXCEPT !.cleanup = NoCleanup, !.got = "none", !.waiter = waiter]

\* AbstractCursor.next(callback)
AbstractCursor_nextOf(c) ==
    IF c.id = "ZERO" THEN Throws(Got(Turn(c, "none"), "error"), "next", "exhausted")
    ELSE Returns(FindCursor_exec(FindCursor_next(Turn(c, "next"))), "next")

\* AbstractCursor.hasNext(callback)
AbstractCursor_hasNextOf(c) ==
    IF c.id = "ZERO" THEN Returns(Got(Turn(c, "none"), "false"), "hasNext")
    ELSE IF c.docs # <<>> THEN Returns(Got(Turn(c, "none"), "true"), "hasNext")
    ELSE Returns(FindCursor_exec(FindCursor_next(Turn(c, "hasNext"))), "hasNext")

\* An iterator call is in flight: made, not thrown, its callback not yet invoked.
InFlight(call) == call.op # "none" /\ call.n = 0 /\ call.res = "none"

\* ------------------------------------------------------------------ the server

\* A Server that has connected, and the calls made on it.  A call is a command, a
\* getMore or a killCursors; its phase is "pinning" (the checkOut that pins a
\* connection to the session is pending), "checkout" (withConnection has not yet
\* called back), "sent" (the command is on the connection) or "done" (its callback
\* has been invoked, with result).  inc and dec count what the call has added to and
\* taken from operationCount.
Ops == 1..MaxOps

NoOp == [kind |-> "none", phase |-> "idle", inc |-> 0, dec |-> 0, result |-> "none"]

Server == [state |-> "connected", operationCount |-> 0, ops |-> [i \in Ops |-> NoOp]]

\* The callback of the call i is invoked.
Completed(v, i, result) == [v EXCEPT !.ops[i].phase = "done", !.ops[i].result = result]

\* this.s.operationCount += 1, and -= 1, in the call i
Increment(v, i) == [v EXCEPT !.operationCount = @ + 1, !.ops[i].inc = @ + 1]
Decrement(v, i) == [v EXCEPT !.operationCount = @ - 1, !.ops[i].dec = @ + 1]

\* The function the Server gives to withConnection, which forgets the decrement when
\* no connection could be checked out
checkedOut_leak(v, i, err) ==
    IF err THEN Completed(v, i, "error")
    ELSE [v EXCEPT !.ops[i].phase = "sent"]

\* The function the Server gives to withConnection runs, with an error or a connection
checkedOut(v, i, err) ==
    IF err THEN Completed(Decrement(v, i), i, "error")
    ELSE [v EXCEPT !.ops[i].phase = "sent"]

\* pool.withConnection(conn, fn, callback) calls fn once, with an error or with a
\* connection, and callback when fn calls cb
withConnection(v, i, err) == checkedOut(v, i, err)

\* The operation handler of the call i runs: the connection has answered, or failed
handleOperationResult(v, i, result) == Completed(Decrement(v, i), i, result)

\* Server.getMore / Server.killCursors, and Server.command past its argument checks,
\* of a command that needs no pinning
Server_run(v, i, kind) ==
    LET v1 == [v EXCEPT !.ops[i].kind = kind]
    IN  IF v.state \in {"closing", "closed"} THEN Completed(v1, i, "closed")
        ELSE [Increment(v1, i) EXCEPT !.ops[i].phase = "checkout"]

\* Server.command(ns, cmd, options, callback); unsupported: the command has a
\* collation the server does not support, pin: it is a pinnable command of a session
\* that has no pinned connection
Server_command(v, i, unsupported, pin) ==
    LET v1 == [v EXCEPT !.ops[i].kind = "command"]
    IN  IF v.state \in {"closing", "closed"} THEN Completed(v1, i, "closed")
        ELSE IF unsupported THEN Completed(v1, i, "compatibility")
        ELSE IF loadBalanced /\ pin THEN [v1 EXCEPT !.ops[i].phase = "pinning"]
        ELSE Server_run(v, i, "command")

\* The callback Server.command gives to pool.checkOut runs: the session is pinned
\* and command() is called again
pinned(v, i, err) ==
    IF err THEN Completed(v, i, "error")
    ELSE Server_command(v, i, FALSE, FALSE)

\* Server.destroy(): closing, and closed when the pool has closed
Server_destroy(v) == IF v.state = "closed" THEN v ELSE [v EXCEPT !.state = "closing"]
poolClosed(v) == [v EXCEPT !.state = "closed"]

\* ------------------------------------------------------------------ the topology wait

\* _waitForTopologyConnected(topology, options, callback) has been called with the
\* options _processError gives it, { readPreference }: a timer is armed, options.start
\* is not set (0), and the callback has not been invoked.  now is the clock, polls
\* counts the timer callbacks that have run, first is the time of the first of them,
\* connected is what isConnected() said at the last of them, and calls and result
\* record the invocations of the callback.
TopologyWait ==
    [armed |-> TRUE, start |-> 0, now |-> 0, polls |-> 0, first |-> 0,
     connected |-> FALSE, calls |-> 0, result |-> "none"]

\* calculateDurationInMs(started), read at time now
calculateDurationInMs(started, now) == IF now < started THEN 0 ELSE now - started

\* The timer callback with >= for > in the test of the timeout.
waitForTopologyConnected_atTimeout(w, connected, late) ==
    LET now == w.now + PollDelay + late
        start == IF w.start = 0 THEN now ELSE w.start
        w1 == [w EXCEPT !.now = now, !.start = start, !.polls = @ + 1,
                        !.first = IF w.polls = 0 THEN now ELSE @,
                        !.connected = connected]
    IN  IF connected
          THEN [w1 EXCEPT !.armed = FALSE, !.calls = @ + 1, !.result = "connected"]
        ELSE IF calculateDurationInMs(start, now) >= SELECTION_TIMEOUT
          THEN [w1 EXCEPT !.armed = FALSE, !.calls = @ + 1, !.result = "timeout"]
        ELSE w1

\* The callback of the setTimeout runs, late ms after the timer was due, and
\* topology.isConnected() answers connected.
waitForTopologyConnected(w, connected, late) ==
    LET now == w.now + PollDelay + late
        options_start == IF w.start = 0 THEN now ELSE w.start
        start == IF options_start # 0 THEN options_start ELSE now
        timeout == SELECTION_TIMEOUT
        w1 == [w EXCEPT !.now = now, !.start = options_start, !.polls = @ + 1,
                        !.first = IF w.polls = 0 THEN now ELSE @,
                        !.connected = connected]
    IN  IF connected
          THEN [w1 EXCEPT !.armed = FALSE, !.calls = @ + 1, !.result = "connected"]
        ELSE IF calculateDurationInMs(start, now) > timeout
          THEN [w1 EXCEPT !.armed = FALSE, !.calls = @ + 1, !.result = "timeout"]
        ELSE w1

\* The state after the constructor, called with the options o; the consumer keeps a
\* record of what it receives, or keeps none.
EngineConstructed(o, record) ==
    /\ mode = "unset"
    /\ closed = FALSE
    /\ cursor = 1
    /\ cur = [k \in CursorIds |-> ChangeStreamCursor(IF k = 1 THEN o ELSE NoOptions)]
    /\ options = o
    /\ srv = [k \in CursorIds |-> 0]
    /\ tlog = [on |-> record, last |-> StartOf(o), out |-> <<>>, reply |-> NoReply]
    /\ ncur = 1
    /\ queue = <<>>
    /\ listeners = 0
    /\ stream = NoStream
    /\ calls = [c \in Calls |-> NewCall]
    /\ rpcs = EmptyBag
    /\ timers = {}
    /\ ncloses = 0
    /\ loadBalanced \in BOOLEAN
    /\ crashed = FALSE
    /\ closeEmitted = 0
    /\ endEmitted = 0
    /\ obs = NoObs

\* The consumer has a change stream, and a FindCursor it has not touched.
Constructed(o, record) ==
    EngineConstructed(o, record) /\ fc = FindCursor(FALSE, FALSE) /\ tw = TopologyWait
    /\ sv = Server

\* watch() without options.
Init == Constructed(NoOptions, FALSE)

\* The consumer calls next(), hasNext() or tryNext().
CallIterator(c, t) ==
    /\ ~crashed
    /\ calls[c].op = "none"
    /\ IF c = 1 THEN TRUE ELSE calls[c - 1].op # "none"
    /\ Commit(Exec(ChangeStream_call([State EXCEPT !.calls[c].op = t], t, c)), "turn")

\* The consumer calls close(); closedDuring marks the iterator calls in flight at a
\* close() of an open stream.
CallClose ==
    /\ ~crashed
    /\ ncloses < MaxCloses
    /\ LET s0 == [State EXCEPT
                    !.ncloses = @ + 1,
                    !.calls = [c \in Calls |->
                                 IF ~closed /\ InFlight(calls[c])
                                   THEN [calls[c] EXCEPT !.closedDuring = TRUE]
                                   ELSE calls[c]]]
       IN  Commit(Exec(ChangeStream_close(s0, "user", 0, "none")), "turn")

\* The consumer attaches a `change` listener.
AddChangeListener ==
    /\ ~crashed
    /\ listeners < MaxListeners
    /\ Commit(newListener(State), "turn")

\* The consumer removes a `change` listener.
RemoveChangeListener ==
    /\ ~crashed
    /\ listeners > 0
    /\ Commit(removeListener(State), "turn")

\* The consumer calls stream().
CallStream ==
    /\ ~crashed
    /\ Commit(ChangeStream_stream(State), "stream")

\* An aggregate returns.
AggregateDone(r, resp) ==
    /\ ~crashed
    /\ r.kind = "aggregate"
    /\ Commit(Exec(initialized([State EXCEPT !.rpcs = @ (-) SetToBag({r}),
                                              !.srv[r.cur] = resp.pos,
                                              !.reply = [cur |-> r.cur, resp |-> resp]],
                                r, resp)), "turn")

\* A getMore returns.
GetMoreDone(r, resp) ==
    /\ ~crashed
    /\ r.kind = "getMore"
    /\ Commit(Exec(gotMore([State EXCEPT !.rpcs = @ (-) SetToBag({r}),
                                          !.srv[r.cur] = resp.pos,
                                          !.reply = [cur |-> r.cur, resp |-> resp]],
                            r, resp)), "turn")

\* A killCursors returns: () => completeCleanup()
KillCursorsDone(r) ==
    /\ ~crashed
    /\ r.kind = "killCursors"
    /\ Commit(Exec(completeCleanup([State EXCEPT !.rpcs = @ (-) SetToBag({r})], r.after)), "turn")

\* A poll of _waitForTopologyConnected finds the topology connected.
TopologyConnected(tm) ==
    /\ ~crashed
    /\ ncur < MaxCursors
    /\ Commit(Exec(waitDone([State EXCEPT !.timers = @ \ {tm}], tm, "none")), "turn")

\* A poll of _waitForTopologyConnected finds the selection timeout elapsed.
TopologyTimeout(tm) ==
    /\ ~crashed
    /\ Commit(Exec(waitDone([State EXCEPT !.timers = @ \ {tm}], tm, "timeout")), "turn")

\* The stream's first _read, a tick after the 'data' handler was attached.
StreamStart ==
    /\ ~crashed
    /\ stream.cur # 0
    /\ ~stream.started
    /\ ~stream.destroyed
    /\ Commit(Exec(readNext([State EXCEPT !.stream.started = TRUE], stream.cur)), "turn")

Next ==
    \/ \E c \in Calls, t \in {"next", "hasNext", "tryNext"} : CallIterator(c, t)
    \/ CallClose
    \/ AddChangeListener
    \/ CallStream
    \/ \E r \in BagToSet(rpcs), resp \in Responses : AggregateDone(r, resp)
    \/ \E r \in BagToSet(rpcs), resp \in Responses : GetMoreDone(r, resp)
    \/ \E r \in BagToSet(rpcs) : KillCursorsDone(r)
    \/ \E tm \in timers : TopologyConnected(tm)
    \/ \E tm \in timers : TopologyTimeout(tm)
    \/ StreamStart

Spec == Init /\ [][Next]_vars

\* What the consumer may pass to watch(): each of the three options, or not; a token
\* or an operation time it passes is the point where the stream opens.
UserOptions == {Options(ra, sa, op) : ra \in {0, 1}, sa \in {0, 1}, op \in {0, 1}}

\* Nothing of iterator call c is pending: its callback has been invoked (or the call
\* threw), and no RPC, topology wait or queued continuation still holds it.
Settled(c) ==
    /\ calls[c].op # "none"
    /\ ~InFlight(calls[c])
    /\ \A r \in BagToSet(rpcs) : r.w.call # c /\ r.after.w.call # c
    /\ \A tm \in timers : tm.call # c
    /\ \A i \in 1 .. Len(queue) : queue[i].call # c

\* The consumer awaits an iterator call and then makes the next one.
CallAgain(t) ==
    /\ ~crashed
    /\ Settled(1)
    /\ Commit(Exec(ChangeStream_call([State EXCEPT !.calls[1] = [NewCall EXCEPT !.op = t]],
                                      t, 1)), "turn")

\* The runs against the oplog server, of a consumer that listens to `change` or
\* calls next(), one call at a time, and records what it receives.
TokenInit == (\E o \in UserOptions : Constructed(o, TRUE)) /\ ~loadBalanced

\* The consumer closes the stream, and leaves it at that.
CloseOnce == ncloses = 0 /\ CallClose

TokenNext ==
    \/ CallIterator(1, "next")
    \/ CallAgain("next")
    \/ CloseOnce
    \/ AddChangeListener
    \/ \E r \in BagToSet(rpcs) : \E resp \in OplogReplies(r) : AggregateDone(r, resp)
    \/ \E r \in BagToSet(rpcs) : \E resp \in OplogReplies(r) : GetMoreDone(r, resp)
    \/ \E r \in BagToSet(rpcs) : KillCursorsDone(r)
    \/ \E tm \in timers : TopologyConnected(tm)
    \/ \E tm \in timers : TopologyTimeout(tm)
    \/ StreamStart

TokenSpec == TokenInit /\ [][TokenNext]_vars

\* The runs against the oplog server of a consumer that polls with tryNext(), one call
\* at a time, and records what it receives.
TryNext ==
    \/ CallIterator(1, "tryNext")
    \/ CallAgain("tryNext")
    \/ CloseOnce
    \/ \E r \in BagToSet(rpcs) : \E resp \in OplogReplies(r) : AggregateDone(r, resp)
    \/ \E r \in BagToSet(rpcs) : \E resp \in OplogReplies(r) : GetMoreDone(r, resp)
    \/ \E r \in BagToSet(rpcs) : KillCursorsDone(r)

TrySpec == TokenInit /\ [][TryNext]_vars

\* What the consumer passes to watch() in the runs against servers of two versions:
\* nothing, or one of the three options.
WireOptions == {o \in UserOptions : Exclusive(o)}

\* What a deployment answers whose servers are of wire version 6 or 7 (MongoDB 3.6 or
\* 4.0): the oplog server's answers, from the server the operation selected.
WireReplies(r) ==
    {[resp EXCEPT !.wire = w] :
        resp \in {x \in OplogReplies(r) : \A i \in 1 .. Len(x.batch) : x.batch[i] # "noid"},
        w \in {MinOperationTimeWire - 1, MinOperationTimeWire}}

\* The runs of a consumer that calls next(), one call at a time, against a deployment
\* whose servers are not all of one version.
WireInit == (\E o \in WireOptions : Constructed(o, TRUE)) /\ ~loadBalanced

WireNext ==
    \/ CallIterator(1, "next")
    \/ CallAgain("next")
    \/ \E r \in BagToSet(rpcs) : \E resp \in WireReplies(r) : AggregateDone(r, resp)
    \/ \E r \in BagToSet(rpcs) : \E resp \in WireReplies(r) : GetMoreDone(r, resp)
    \/ \E r \in BagToSet(rpcs) : KillCursorsDone(r)
    \/ \E tm \in timers : TopologyConnected(tm)
    \/ \E tm \in timers : TopologyTimeout(tm)

WireSpec == WireInit /\ [][WireNext]_vars

\* The runs against the oplog server of a consumer that calls next() again before the
\* call before it has completed, and records what it receives.
QueueInit == Constructed(NoOptions, TRUE) /\ ~loadBalanced

QueueNext ==
    \/ \E c \in Calls : CallIterator(c, "next")
    \/ \E r \in BagToSet(rpcs) : \E resp \in OplogReplies(r) : AggregateDone(r, resp)
    \/ \E r \in BagToSet(rpcs) : \E resp \in OplogReplies(r) : GetMoreDone(r, resp)
    \/ \E r \in BagToSet(rpcs) : KillCursorsDone(r)
    \/ \E tm \in timers : TopologyConnected(tm)
    \/ \E tm \in timers : TopologyTimeout(tm)

QueueSpec == QueueInit /\ [][QueueNext]_vars

\* How late the event loop runs a timer that is due: at once, a poll's time later, or
\* a selection timeout later.
Lateness == {0, PollDelay, SELECTION_TIMEOUT}

\* A timer of the topology wait fires.
Poll ==
    /\ tw.armed
    /\ \E connected \in BOOLEAN, late \in Lateness :
          tw' = waitForTopologyConnected(tw, connected, late)
    /\ UNCHANGED <<engine, fc, sv>>

\* The runs of one topology wait; the event loop runs every timer that is armed.
WaitInit == Constructed(NoOptions, FALSE) /\ ~loadBalanced

WaitNext == Poll

WaitSpec == WaitInit /\ [][WaitNext]_vars /\ WF_vars(Poll)

\* The runs of a consumer that attaches and removes `change` listeners while the
\* stream runs; it stops attaching when the stream has MaxHandlers handlers of a kind.
ListenerInit == Constructed(NoOptions, FALSE) /\ ~loadBalanced

ListenerNext ==
    \/ stream.error < MaxHandlers /\ AddChangeListener
    \/ RemoveChangeListener
    \/ CloseOnce
    \/ \E r \in BagToSet(rpcs), resp \in Responses : AggregateDone(r, resp)
    \/ \E r \in BagToSet(rpcs), resp \in Responses : GetMoreDone(r, resp)
    \/ \E r \in BagToSet(rpcs) : KillCursorsDone(r)
    \/ \E tm \in timers : TopologyConnected(tm)
    \/ \E tm \in timers : TopologyTimeout(tm)
    \/ StreamStart

ListenerSpec == ListenerInit /\ [][ListenerNext]_vars

\* The consumer works on its FindCursor: one action for each call it can make, and one
\* for each command that returns.  It calls next() and close() when no command is in
\* flight; the change stream is left alone.
FindInit ==
    /\ EngineConstructed(NoOptions, FALSE)
    /\ ~loadBalanced
    /\ tw = TopologyWait
    /\ sv = Server
    /\ fc \in {FindCursor(tailable, explicit) : tailable, explicit \in BOOLEAN}

CallAddCursorFlag ==
    /\ fc.calls < MaxMutations
    /\ \E flag \in CursorFlags, value \in {"true", "false"} :
          fc' = addCursorFlag(Mutator(fc), flag, value)
    /\ UNCHANGED <<engine, tw, sv>>

CallMap ==
    /\ fc.calls < MaxMutations
    /\ fc' = map(Mutator(fc))
    /\ UNCHANGED <<engine, tw, sv>>

CallWithReadPreference ==
    /\ fc.calls < MaxMutations
    /\ fc' = withReadPreference(Mutator(fc), 1)
    /\ UNCHANGED <<engine, tw, sv>>

CallWithReadConcern ==
    /\ fc.calls < MaxMutations
    /\ fc' = withReadConcern(Mutator(fc), 1)
    /\ UNCHANGED <<engine, tw, sv>>

CallMaxTimeMS ==
    /\ fc.calls < MaxMutations
    /\ fc' = maxTimeMS(Mutator(fc), 1)
    /\ UNCHANGED <<engine, tw, sv>>

CallBatchSize ==
    /\ fc.calls < MaxMutations
    /\ fc' = batchSize(Mutator(fc), 1)
    /\ UNCHANGED <<engine, tw, sv>>

CallSort ==
    /\ fc.calls < MaxMutations
    /\ fc' = sort(Mutator(fc), 1)
    /\ UNCHANGED <<engine, tw, sv>>

CallLimit ==
    /\ fc.calls < MaxMutations
    /\ fc' = limit(Mutator(fc), 1)
    /\ UNCHANGED <<engine, tw, sv>>

CallSkip ==
    /\ fc.calls < MaxMutations
    /\ fc' = skip(Mutator(fc), 1)
    /\ UNCHANGED <<engine, tw, sv>>

CallRewind == fc' = rewind(fc) /\ UNCHANGED <<engine, tw, sv>>

\* AbstractCursor.next(callback)
CallCursorNext ==
    /\ fc.rpc = "none"
    /\ fc' = AbstractCursor_nextOf(fc)
    /\ UNCHANGED <<engine, tw, sv>>

CallCursorClose ==
    /\ fc.rpc = "none"
    /\ fc' = Returns(FindCursor_exec(FindCursor_close(Turn(fc, "close"), <<"done">>)),
                     "close")
    /\ UNCHANGED <<engine, tw, sv>>

FindDone(resp) ==
    /\ fc.rpc = "find"
    /\ fc' = Returns(FindCursor_exec(foundFirst([Turn(fc, fc.waiter) EXCEPT !.rpc = "none"],
                                                resp)), "reply")
    /\ UNCHANGED <<engine, tw, sv>>

FindMoreDone(resp) ==
    /\ fc.rpc = "getMore"
    /\ fc' = Returns(FindCursor_exec(foundMore([Turn(fc, fc.waiter) EXCEPT !.rpc = "none"],
                                               resp)), "reply")
    /\ UNCHANGED <<engine, tw, sv>>

\* The killCursors of cleanupCursor returns: completeCleanup()
FindKillDone ==
    /\ fc.rpc = "killCursors"
    /\ fc' = Returns(FindCursor_exec(FindCursor_completeCleanup(
                         [Turn(fc, fc.waiter) EXCEPT !.rpc = "none", !.after = <<"none">>],
                         fc.after)), "reply")
    /\ UNCHANGED <<engine, tw, sv>>

FindNext ==
    \/ CallAddCursorFlag
    \/ CallMap
    \/ CallWithReadPreference
    \/ CallWithReadConcern
    \/ CallMaxTimeMS
    \/ CallBatchSize
    \/ CallSort
    \/ CallLimit
    \/ CallSkip
    \/ CallRewind
    \/ CallCursorNext
    \/ CallCursorClose
    \/ \E resp \in FindReplies : FindDone(resp)
    \/ \E resp \in FindReplies : FindMoreDone(resp)
    \/ FindKillDone

FindSpec == FindInit /\ [][FindNext]_vars

\* The runs of a cursor whose consumer iterates with next() and hasNext(), closes and
\* rewinds, on a topology that is load balanced or is not, against a server whose
\* commands can also fail with a network error.
CursorReplies == FindReplies \cup {[err |-> "net", id |-> "zero", batch |-> <<>>]}

CursorInit ==
    /\ EngineConstructed(NoOptions, FALSE)
    /\ tw = TopologyWait
    /\ sv = Server
    /\ fc \in {[FindCursor(FALSE, explicit) EXCEPT !.watch = TRUE] : explicit \in BOOLEAN}

\* AbstractCursor.hasNext(callback)
CallCursorHasNext ==
    /\ fc.rpc = "none"
    /\ fc' = AbstractCursor_hasNextOf(fc)
    /\ UNCHANGED <<engine, tw, sv>>

CursorNext ==
    \/ CallLimit
    \/ CallRewind
    \/ CallCursorNext
    \/ CallCursorHasNext
    \/ CallCursorClose
    \/ \E resp \in CursorReplies : FindDone(resp)
    \/ \E resp \in CursorReplies : FindMoreDone(resp)
    \/ FindKillDone

CursorSpec == CursorInit /\ [][CursorNext]_vars

\* The runs of a Server on which commands, getMores and killCursors are called, while
\* it is connected and while it is destroyed, on a topology that is load balanced or
\* is not.
ServerInit == Constructed(NoOptions, FALSE)

CallCommand(i) ==
    /\ sv.ops[i].phase = "idle"
    /\ \E unsupported, pin \in BOOLEAN : sv' = Server_command(sv, i, unsupported, pin)
    /\ UNCHANGED <<engine, fc, tw>>

CallGetMore(i) ==
    /\ sv.ops[i].phase = "idle"
    /\ sv' = Server_run(sv, i, "getMore")
    /\ UNCHANGED <<engine, fc, tw>>

CallKillCursors(i) ==
    /\ sv.ops[i].phase = "idle"
    /\ sv' = Server_run(sv, i, "killCursors")
    /\ UNCHANGED <<engine, fc, tw>>

Pinned(i) ==
    /\ sv.ops[i].phase = "pinning"
    /\ \E err \in BOOLEAN : sv' = pinned(sv, i, err)
    /\ UNCHANGED <<engine, fc, tw>>

CheckedOut(i) ==
    /\ sv.ops[i].phase = "checkout"
    /\ \E err \in BOOLEAN : sv' = withConnection(sv, i, err)
    /\ UNCHANGED <<engine, fc, tw>>

Answered(i) ==
    /\ sv.ops[i].phase = "sent"
    /\ \E result \in {"response", "error"} : sv' = handleOperationResult(sv, i, result)
    /\ UNCHANGED <<engine, fc, tw>>

Destroy ==
    /\ sv.state = "connected"
    /\ sv' = Server_destroy(sv)
    /\ UNCHANGED <<engine, fc, tw>>

PoolClosed ==
    /\ sv.state = "closing"
    /\ sv' = poolClosed(sv)
    /\ UNCHANGED <<engine, fc, tw>>

ServerNext ==
    \/ \E i \in Ops : CallCommand(i)
    \/ \E i \in Ops : CallGetMore(i)
    \/ \E i \in Ops : CallKillCursors(i)
    \/ \E i \in Ops : Pinned(i)
    \/ \E i \in Ops : CheckedOut(i)
    \/ \E i \in Ops : Answered(i)
    \/ Destroy
    \/ PoolClosed

ServerSpec == ServerInit /\ [][ServerNext]_vars

\* The runs of a consumer that makes a single iterator call.
SoloNext ==
    \/ \E t \in {"next", "hasNext", "tryNext"} : CallIterator(1, t)
    \/ CallClose
    \/ AddChangeListener
    \/ CallStream
    \/ \E r \in BagToSet(rpcs), resp \in Responses : AggregateDone(r, resp)
    \/ \E r \in BagToSet(rpcs), resp \in Responses : GetMoreDone(r, resp)
    \/ \E r \in BagToSet(rpcs) : KillCursorsDone(r)
    \/ \E tm \in timers : TopologyConnected(tm)
    \/ \E tm \in timers : TopologyTimeout(tm)
    \/ StreamStart

SoloSpec == Init /\ [][SoloNext]_vars

\* ------------------------------------------------------------------ the properties

\* C1 -- mode stickiness: once the mode is iterator, attaching a `change` listener
\* fails, adds no listener and leaves the mode; once it is emitter, next(), hasNext()
\* and tryNext() fail with the mode conflict.
ModeStickiness ==
    [][/\ mode = "iterator" => mode' = "iterator" /\ listeners' = listeners
       /\ mode = "emitter" =>
            /\ mode' = "emitter"
            /\ \A c \in Calls :
                 calls[c].op = "none" /\ calls'[c].op # "none"
                    => calls'[c].res = "modeConflict"]_vars

SingleClose ==
    [][/\ closeEmitted' <= 1
       /\ closed /\ ncloses' > ncloses => closeEmitted' = closeEmitted /\ rpcs' = rpcs]_vars

\* C4 -- once close() has been called, no `change` and no `resumeTokenChanged` event is
\* emitted and no iterator callback receives a document.
NothingAfterClose ==
    ncloses > 0 => obs.ev \cap {"lateChange", "lateResumeTokenChanged", "lateDocument"} = {}

\* Nothing is pending that could still invoke a callback: no RPC in flight, no
\* topology wait, and the process has not died of an uncaught exception.
Quiescent == rpcs = EmptyBag /\ timers = {} /\ ~crashed

\* C5 -- a next() that was in flight when close() was called completes exactly once,
\* with the closed error: never with anything else, never twice, and it has completed
\* once nothing is pending any more.
CloseDuringNext ==
    \A c \in Calls :
        calls[c].op = "next" /\ calls[c].closedDuring =>
            /\ calls[c].res \in {"none", "closedErr"}
            /\ calls[c].n <= 1
            /\ Quiescent => calls[c].n = 1

\* C6 -- when the consumer's close() has completed, the resume queue is empty.
CloseDrainsQueue == "closeLeft" \notin obs.ev

\* C7 -- whenever a resume attempt concludes (new cursor adopted, topology wait timed
\* out, probe failed), the resume queue is empty.
QueueDraining == "resumeLeft" \notin obs.ev

\* C8 -- every continuation placed on the resume queue is invoked by the drain, also
\* when the drain finds the engine closed: once a resume attempt has concluded with the
\* engine closed, no continuation is still waiting in the queue.
QueuedInvoked ==
    closed /\ obs.ev \cap {"resumeDrained", "resumeLeft"} # {} => queue = <<>>

\* C9 -- no cursor error reaches the consumer of an iterator call while the stream
\* stays open, and a resumable one never reaches it.
ErrorsResumedOrSurfaced ==
    \A c \in Calls :
        calls[c].res \in ErrKinds => closed /\ ~isResumableError(calls[c].res)

\* C10 -- when the engine has closed on a cursor error that is not resumable and has
\* delivered it, the resume queue is empty.
UnresumableDrainsQueue == "errorLeft" \notin obs.ev

\* C11 -- a change that lacks _id is never handed to the consumer, and the
\* no-resume-token error reaches a callback only once the engine is closed.
NoIdNeverDelivered ==
    \A c \in Calls :
        /\ calls[c].res # "noid"
        /\ calls[c].res = "noResumeToken" => closed

\* C12 -- no loss and no duplication across resumes: every document handed to the
\* consumer is the event that follows the one handed to it before, and a resume never
\* starts past the last event the consumer has received.
NoLossNoDuplication ==
    [][/\ LET d == Delivered(tlog'.out)
           IN  \A i \in 1 .. Len(d) : d[i] = (IF i = 1 THEN tlog.last ELSE d[i - 1]) + 1
       /\ ncur' > ncur => StartOf(cur'[ncur'].options) <= tlog'.last]_vars

\* C13 -- the resume token a cursor instance stores never moves backwards in the
\* order of the oplog.
MonotonicResumeToken ==
    [][\A k \in CursorIds :
         cur[k].resumeToken # 0 => cur'[k].resumeToken >= cur[k].resumeToken]_vars

\* C14 -- when a turn has processed a reply whose batch is empty and which carries a
\* postBatchResumeToken, the cursor's resume token is that token, resumeTokenChanged
\* has been emitted with it, and the turn has delivered no document.
EmptyBatchPromotion ==
    LET k == tlog.reply.cur
        resp == tlog.reply.resp
    IN  k # 0 /\ resp.err = "none" /\ resp.batch = <<>> /\ resp.pbrt # 0 =>
            /\ cur[k].resumeToken = resp.pbrt
            /\ \E i \in 1 .. Len(tlog.out) :
                   tlog.out[i] = [e |-> "resumeTokenChanged", tok |-> resp.pbrt]
            /\ Delivered(tlog.out) = <<>>

\* C14, the case reached: a getMore has answered with an empty batch and a
\* postBatchResumeToken past the token the cursor held, which the cursor now holds.
PromotedByGetMore ==
    /\ tlog.reply.cur # 0
    /\ tlog.reply.resp.err = "none"
    /\ tlog.reply.resp.batch = <<>>
    /\ tlog.reply.resp.pbrt > 1
    /\ cur[tlog.reply.cur].hasReceived
    /\ cur[tlog.reply.cur].resumeToken = tlog.reply.resp.pbrt

\* C15 -- when next() has handed a document to its callback, a cursor of the engine
\* has hasReceived set and holds as resume token its postBatchResumeToken, if its
\* buffer is empty and it has one, and the _id of the document otherwise.
TokenAfterNext ==
    [][\A c \in Calls :
         calls[c].op = "next" /\ calls'[c].n > calls[c].n /\ calls'[c].res \in DocKinds =>
            \E k \in CursorIds :
               /\ cur'[k].hasReceived
               /\ cur'[k].resumeToken =
                     IF cur'[k].docs = <<>> /\ cur'[k].postBatchResumeToken # 0
                       THEN cur'[k].postBatchResumeToken
                       ELSE Id(calls'[c].res)]_vars

\* C16 -- a document tryNext() hands to its callback has an _id, and the engine's
\* cursor has cached its token: hasReceived is set and the resume token is not null.
TryNextConsumes ==
    [][\A c \in Calls :
         calls[c].op = "tryNext" /\ calls'[c].n > calls[c].n /\ calls'[c].res \in DocKinds =>
            /\ calls'[c].res # "noid"
            /\ \E k \in CursorIds : cur'[k].hasReceived /\ cur'[k].resumeToken # 0]_vars

\* The keys among resumeAfter, startAfter and startAtOperationTime that a stage has.
KeysOf(o) == {key \in {"resumeAfter", "startAfter", "startAtOperationTime"} : o[key] # 0}

\* C17 -- the stage of a cursor made by a resume has at most one of the three keys;
\* when the cursor it replaces holds a resume token, it has exactly one, which is
\* resumeAfter or startAfter and carries that token.
OneResumeKey ==
    [][ncur' > ncur =>
         LET o == cur'[ncur'].options
         IN  /\ Cardinality(KeysOf(o)) <= 1
             /\ \A tm \in timers \ timers' :
                   cur[tm.old].resumeToken # 0 =>
                      /\ Cardinality(KeysOf(o)) = 1
                      /\ o.startAtOperationTime = 0
                      /\ cur[tm.old].resumeToken \in {o.resumeAfter, o.startAfter}]_vars

\* C17, the case reached: the consumer passed resumeAfter and startAtOperationTime
\* together, and the cursor of the resume has resumeAfter alone.
ResumedWithOneKey ==
    /\ ncur = 2
    /\ cur[1].options = Options(1, 0, 1)
    /\ cur[2].options = Options(1, 0, 0)

\* C18 -- no change is handed to the consumer, as a `change` event or as the result
\* of next(), unless the resumeTokenChanged event with the token cached for it has
\* been emitted just before.
TokenEventFirst == "unannounced" \notin obs.ev

\* C19 -- once an emitter-mode stream that the consumer has closed has emitted
\* `close`, it has emitted `end`.
EndBeforeClose ==
    mode = "emitter" /\ ncloses > 0 /\ closeEmitted > 0 => endEmitted > 0

\* C20 -- a cursor whose id is zero sends no getMore; while it has documents in its
\* buffer and the stream is open, the next() that completes receives the first of
\* them, or the no-resume-token error when that document has no _id; and when the
\* engine reports the end of the stream to next(), the buffer is empty and the
\* consumer has received every document the server has sent to the cursor.
DrainBeforeEnd ==
    [][/\ \A r \in BagToSet(rpcs') :
             r.kind = "getMore" /\ CopiesIn(r, rpcs') > CopiesIn(r, rpcs) =>
                ~cursorIsDead(cur[r.cur]) /\ ~cursorIsDead(cur'[r.cur])
       /\ /\ \E i \in 1 .. Len(tlog'.out) : tlog'.out[i].e \in {"next", "callback"}
          /\ ~closed
          /\ cursor # 0
          /\ cursorIsDead(cur[cursor])
          /\ cur[cursor].docs # <<>>
          => /\ cur'[cursor].docs = Tail(cur[cursor].docs)
             /\ calls'[1].res = IF Head(cur[cursor].docs) = "noid"
                                  THEN "noResumeToken"
                                  ELSE Head(cur[cursor].docs)
       /\ /\ \E i \in 1 .. Len(tlog'.out) : tlog'.out[i].e = "callback"
          /\ calls'[1].res = "closedErr"
          /\ ~closed /\ closed' /\ ncloses' = ncloses
          /\ cursor # 0
          => /\ cur[cursor].docs = <<>>
             /\ tlog'.last = srv'[cursor]]_vars

\* C20, the case reached: a reply has brought two documents and the cursor id zero,
\* next() has received the first document, and its next call has received the second.
DrainedSecond ==
    /\ cursor # 0
    /\ ~closed
    /\ cur[cursor].id = "zero"
    /\ cur[cursor].docs = <<>>
    /\ tlog.reply = NoReply
    /\ Delivered(tlog.out) = <<srv[cursor]>>
    /\ calls[1].res = Doc(srv[cursor])

\* C21 -- tryNext() does not block.  When the getMore of a tryNext() on an open stream
\* answers with an empty batch and a live cursor id, the callback receives null, no
\* further RPC is sent, and the cursor stays open with its id; when the getMore
\* answers at all, no second getMore follows it in the same call; and a tryNext() that
\* finds a document in the buffer of an open cursor receives that document and sends
\* no RPC.
TryNextDoesNotBlock ==
    [][/\ \A r \in BagToSet(rpcs) :
             /\ r.kind = "getMore"
             /\ tlog'.reply.cur = r.cur
             => /\ \A q \in BagToSet(rpcs') : q.kind # "getMore"
                /\ /\ ~closed
                   /\ tlog'.reply.resp.err = "none"
                   /\ tlog'.reply.resp.id = "live"
                   /\ tlog'.reply.resp.batch = <<>>
                   => /\ tlog'.out[Len(tlog'.out)] = [e |-> "callback", tok |-> 0]
                      /\ calls'[1].res = "null"
                      /\ rpcs' = EmptyBag
                      /\ ~cur'[r.cur].closed
                      /\ cur'[r.cur].id = "live"
       /\ /\ \E i \in 1 .. Len(tlog'.out) : tlog'.out[i].e \in {"tryNext", "callback"}
          /\ ~closed
          /\ cursor # 0
          /\ ~cur[cursor].closed
          /\ cur[cursor].id # "ZERO"
          /\ cur[cursor].docs # <<>>
          => /\ calls'[1].res = Head(cur[cursor].docs)
             /\ cur'[cursor].docs = Tail(cur[cursor].docs)
             /\ rpcs' = rpcs]_vars

\* C21, the case reached: a tryNext() on an initialized cursor has sent a getMore,
\* which brought an empty batch, and its callback has received null with the cursor
\* still open and live.
TryNextGotNull ==
    /\ tlog.reply.cur # 0
    /\ tlog.reply.resp.err = "none"
    /\ tlog.reply.resp.id = "live"
    /\ tlog.reply.resp.batch = <<>>
    /\ calls[1].op = "tryNext"
    /\ calls[1].res = "null"
    /\ cur[1].hasReceived = FALSE
    /\ srv[1] > 1
    /\ ~cur[1].closed
    /\ cur[1].id = "live"
    /\ rpcs = EmptyBag

\* C22 -- a call of addCursorFlag, batchSize, maxTimeMS, withReadPreference,
\* withReadConcern or map on an initialized cursor throws the cursor-in-use error and
\* leaves the options and the transform as they were.
InUseAfterInit ==
    [][/\ fc.initialized
       /\ fc'.calls > fc.calls
       /\ fc'.last \in {"addCursorFlag", "batchSize", "maxTimeMS", "withReadPreference",
                        "withReadConcern", "map"}
       => /\ fc'.thrown = "inUse"
          /\ fc'.kOptions = fc.kOptions
          /\ fc'.kBuiltOptions = fc.kBuiltOptions
          /\ fc'.kTransform = fc.kTransform]_vars

\* C22, the case reached: map() has thrown the cursor-in-use error on a cursor that a
\* find has initialized.
InUseThrown ==
    /\ fc.initialized
    /\ fc.id = "live"
    /\ fc.last = "map"
    /\ fc.thrown = "inUse"
    /\ fc.kTransform = 0

\* C23 -- on a tailable cursor that is not initialized, a call of limit, skip, sort or
\* batchSize throws the tailable-misuse error and changes no option.
TailableRejects ==
    [][/\ ~fc.initialized
       /\ Tailable(fc)
       /\ fc'.calls > fc.calls
       /\ fc'.last \in {"limit", "skip", "sort", "batchSize"}
       => /\ fc'.thrown = "tailable"
          /\ fc'.kOptions = fc.kOptions
          /\ fc'.kBuiltOptions = fc.kBuiltOptions]_vars

\* C24 -- rewind() on an initialized cursor leaves it without id, with an empty buffer,
\* not closed, not killed and not initialized, with the options and the transform it
\* had, and without session, its implicit session ended and an explicit one not; on
\* a cursor that is not initialized it changes nothing; and after a rewind a mutator
\* does not throw the cursor-in-use error and next() sends the find again.
RewindResets ==
    [][/\ fc'.last \in {"rewind", "rewound"} /\ fc' # fc =>
             IF fc.initialized
               THEN /\ fc'.last = "rewound"
                    /\ fc'.id = "none" /\ fc'.docs = <<>>
                    /\ ~fc'.closed /\ ~fc'.killed /\ ~fc'.initialized
                    /\ fc'.kOptions = fc.kOptions
                    /\ fc'.kBuiltOptions = fc.kBuiltOptions
                    /\ fc'.kTransform = fc.kTransform
                    /\ fc'.session = "none"
                    /\ fc'.hasEnded = (fc.hasEnded \/ fc.session = "implicit")
               ELSE fc' = [fc EXCEPT !.last = "rewind", !.thrown = "none"]
       /\ fc.last = "rewound" /\ fc'.calls > fc.calls => fc'.thrown # "inUse"
       /\ fc.last = "rewound" /\ fc'.last = "next" =>
             /\ fc'.rpc = "find"
             /\ fc'.session # "none"
             /\ fc.session = "none" => ~fc'.hasEnded]_vars

\* C24, the case reached: the cursor had received documents from a find with a session
\* of its own, was rewound, and has sent the find again with a new session.
FoundAgain ==
    /\ fc.last = "next"
    /\ fc.rpc = "find"
    /\ fc.numReturned > 0
    /\ fc.session = "implicit"
    /\ ~fc.hasEnded
    /\ ~fc.initialized

OperationTimeRecorded ==
    [][\A k \in CursorIds :
         LET resp == tlog'.reply.resp
         IN  tlog'.reply.cur = k /\ ~cur[k].initialized /\ resp.err = "none" =>
                cur'[k].startAtOperationTime =
                    IF cur[k].options = NoOptions /\ resp.wire >= MinOperationTimeWire
                      THEN resp.operationTime
                      ELSE cur[k].startAtOperationTime]_vars

\* C26 -- when the cursor a resume replaces has a server and holds no resume token but
\* an operation time, the stage of the resumed aggregate has startAtOperationTime
\* exactly when the server that aggregate selects is of wire version 7 or later, and
\* has neither resumeAfter nor startAfter.
OperationTimeByWire ==
    [][\A k \in CursorIds \ {1} :
         LET old == cur[k - 1]
             o == cur[k].options
         IN  /\ tlog'.reply.cur = k
             /\ ~cur[k].initialized
             /\ old.server
             /\ old.resumeToken = 0
             /\ old.startAtOperationTime # 0
             => /\ o.resumeAfter = 0
                /\ o.startAfter = 0
                /\ o.startAtOperationTime # 0
                       <=> tlog'.reply.resp.wire >= MinOperationTimeWire]_vars

\* C28 -- when the topology wait of a resume started for a next() call times out, or
\* the initial aggregate of the hasNext probe on the new cursor fails, and the stream
\* is not closed yet, the turn closes the stream and invokes the callback of that
\* call with the error of the timeout or of the probe.
ResumeFailureReported ==
    [][/\ \A tm \in timers \ timers' :
             tm.call # 0 /\ ~closed /\ ncur' = ncur =>
                /\ closed'
                /\ tlog'.out # <<>> /\ tlog'.out[Len(tlog'.out)].e = "callback"
                /\ calls'[tm.call].res = "timeout"
       /\ \A r \in BagToSet(rpcs) :
             /\ r.kind = "aggregate" /\ r.w.t = "probe" /\ ~closed
             /\ tlog'.reply.cur = r.cur /\ tlog'.reply.resp.err # "none"
             => /\ closed'
                /\ tlog'.out # <<>> /\ tlog'.out[Len(tlog'.out)].e = "callback"
                /\ calls'[r.w.call].res = tlog'.reply.resp.err]_vars

\* C29 -- when a turn empties a resume queue of two continuations and both calls
\* receive a document in it, the call whose continuation was enqueued first receives
\* the first of the two documents the turn delivers.
QueueFIFO ==
    [][/\ Len(queue) = 2 /\ queue' = <<>>
       /\ \A c \in Calls : calls'[c].n > calls[c].n /\ calls'[c].res \in DocKinds
       => LET d == Delivered(tlog'.out)
          IN  Len(d) = 2 /\ calls'[queue[1].call].res = Doc(d[1])]_vars

\* The cursors the engine has made that are not closed.
OpenCursors == {k \in 1 .. ncur : ~cur[k].closed}

\* C30 -- the cursor slot is empty or holds one of the cursors the engine has made, at
\* most one of these cursors is open, and it is then the one in the slot or the slot
\* is empty; a cursor is made only when the slot is empty and every cursor made
\* before is closed; and an aggregate or a getMore is only ever started by a cursor
\* that is open.
OneLiveCursor ==
    /\ [](/\ cursor \in 0 .. ncur
          /\ Cardinality(OpenCursors) <= 1
          /\ cursor # 0 => OpenCursors \subseteq {cursor})
    /\ [][/\ ncur' > ncur => cursor = 0 /\ OpenCursors = {}
          /\ \A r \in BagToSet(rpcs') :
                r.kind \in {"aggregate", "getMore"} /\ CopiesIn(r, rpcs') > CopiesIn(r, rpcs)
                => ~cur[r.cur].closed]_vars

\* C30, the case reached: the engine has replaced its cursor, the first one is closed,
\* and the second one, which is in the slot, has a getMore in flight.
ReplacedAndRunning ==
    /\ ncur = 2
    /\ cursor = 2
    /\ cur[1].closed
    /\ ~cur[2].closed
    /\ \E r \in BagToSet(rpcs) : r.kind = "getMore" /\ r.cur = 2

\* C31 -- the callback of the topology wait is invoked at most once, and has been
\* invoked exactly when no timer is armed any more; a poll that finds the topology
\* connected invokes it with success, a poll that finds it not connected invokes it
\* with the timeout error if more than the selection timeout has passed since the
\* first poll, and arms the next timer otherwise; and the callback is invoked in the
\* end.
WaitCallsBackOnce ==
    /\ [](tw.calls <= 1 /\ (tw.calls = 1 <=> ~tw.armed))
    /\ [][tw'.polls = tw.polls + 1 =>
            IF tw'.connected
              THEN tw'.calls = 1 /\ tw'.result = "connected"
            ELSE IF tw'.now - tw'.first > SELECTION_TIMEOUT
              THEN tw'.calls = 1 /\ tw'.result = "timeout"
            ELSE tw'.calls = 0 /\ tw'.armed]_vars
    /\ <>(tw.calls = 1)

\* C31, the case reached: the wait has polled more than twice, the last poll came
\* more than the selection timeout after the first, and the callback has the timeout.
WaitTimedOut ==
    /\ tw.polls > 2
    /\ tw.now - tw.first > SELECTION_TIMEOUT
    /\ tw.calls = 1
    /\ tw.result = "timeout"

\* C32 -- when a turn has processed an error reply to the aggregate or a getMore of
\* the cursor in the slot of a stream that is not closed, _processError has run on it:
\* the slot is empty and a topology wait has started, or the stream is closed.
ErrorsReachProcessError ==
    [][/\ tlog'.reply.cur # 0
       /\ tlog'.reply.cur = cursor
       /\ tlog'.reply.resp.err # "none"
       /\ ~closed
       => \/ cursor' = 0 /\ timers' # timers
          \/ closed']_vars

\* C33 -- while the stream is not closed and has a cursor in its slot, the cursor
\* stream has one 'data' handler and one 'error' handler if a `change` listener is
\* registered, and none of either if none is.
HandlersWhileListening ==
    cursor # 0 /\ ~closed =>
        /\ stream.data = (IF listeners > 0 THEN 1 ELSE 0)
        /\ stream.error = (IF listeners > 0 THEN 1 ELSE 0)

\* The turn that ends in this step ran cleanupCursor on the cursor; what it was
\* entered with, and what it did.
CleanupRan == fc'.cleanup.ran /\ fc'.last \in {"next", "hasNext", "close", "reply"}
CleanupLive == fc'.cleanup.id = "live" /\ fc'.cleanup.server
CleanupPinned == loadBalanced /\ fc'.cleanup.error = "net"
CleanupEmits ==
    IF fc'.cleanup.needs = "default" THEN fc'.cleanup.docs = 0
    ELSE fc'.cleanup.needs = "yes"
KillSent == fc'.rpc = "killCursors"

\* C34 -- cleanupCursor sends killCursors exactly when the cursor has a live id and a
\* server and the cleanup is not for a network error on a load-balanced topology;
\* on that path it completes, with the error, without a killCursors; and with no
\* live id it sends none, and marks the cursor closed and emits `close` once when
\* needsToEmitClosed is true (given, or by default when no document is buffered) and
\* otherwise leaves the closed flag as it was and emits nothing.
CleanupKillsLiveCursor ==
    [][CleanupRan =>
        /\ KillSent <=> (CleanupLive /\ ~CleanupPinned)
        /\ CleanupPinned => fc'.waiter = "none" /\ fc'.got = "error"
        /\ ~CleanupLive /\ ~CleanupPinned =>
              IF CleanupEmits
                THEN /\ fc'.closed
                     /\ fc'.id = "ZERO"
                     /\ fc'.emitted = Count(fc.emitted)
                ELSE /\ fc'.closed = fc'.cleanup.closed
                     /\ fc'.emitted = fc.emitted]_vars

\* C34, the case reached: a cleanup was entered with the id 0 of a response and a
\* buffered document, and has left the cursor open, with no `close` emitted.
CleanupLeftOpen ==
    /\ fc.cleanup.ran
    /\ fc.cleanup.id = "zero"
    /\ fc.cleanup.docs > 0
    /\ fc.cleanup.needs = "default"
    /\ fc.last = "reply"
    /\ ~fc.closed
    /\ fc.emitted = 0

\* C34 as stated: with id 0 or no server every cleanup marks the cursor closed and
\* emits `close` once.
CleanupAlwaysCloses ==
    [][CleanupRan =>
        /\ KillSent <=> (CleanupLive /\ ~CleanupPinned)
        /\ CleanupPinned => fc'.waiter = "none" /\ fc'.got = "error"
        /\ ~CleanupLive /\ ~CleanupPinned =>
              /\ fc'.closed
              /\ fc'.emitted = Count(fc.emitted)]_vars

\* C35 -- endSession is invoked at most once on the implicit session a cursor owns,
\* and never on an explicit session, which the cursor does not own.
SessionEndedOnce ==
    /\ fc.ended <= 1
    /\ fc.session = "explicit" => fc.ended = 0 /\ ~fc.hasEnded

\* The consumer has just been told that the cursor has a next document: hasNext()
\* has answered true, in the call or in the callback of its command, and nothing was
\* called since.
ToldHasNext == fc.got = "true" /\ fc.last \in {"hasNext", "reply"} /\ fc.rpc = "none"

\* C40 -- when hasNext() has just answered true, a next() called now hands a
\* document to its callback: not null, and no error.
HasNextThenNext ==
    ToldHasNext => AbstractCursor_nextOf(fc).got \notin {"null", "error", "none"}

\* The calls on the Server that have started and have not completed, and those of
\* them that are past the checkOut that pins a connection.
InProgress == {i \in Ops : sv.ops[i].phase \in {"pinning", "checkout", "sent"}}
Counted == {i \in Ops : sv.ops[i].phase \in {"checkout", "sent"}}

\* C36 -- operationCount is the number of calls that are waiting for withConnection or
\* for the answer of the connection; a call adds one when it starts to wait for
\* withConnection (a load-balanced command that pins a connection first: after that
\* checkOut), takes it back once when it completes, and neither adds nor takes
\* anything when it is rejected or fails to pin; the count is never negative.
OperationCountInFlight ==
    /\ sv.operationCount = Cardinality(Counted)
    /\ sv.operationCount >= 0
    /\ \A i \in Ops :
          LET op == sv.ops[i]
          IN  /\ op.inc = (IF op.phase \in {"checkout", "sent"} \/ op.dec = 1 THEN 1 ELSE 0)
              /\ op.dec = (IF op.phase = "done"
                               /\ op.result \in {"response", "error"} /\ op.inc = 1
                            THEN 1 ELSE 0)
              /\ op.result \in {"closed", "compatibility"} => op.inc = 0 /\ op.dec = 0

\* C36, the case reached: on a load-balanced topology one call is pinning a
\* connection, one waits for a connection, one has been rejected by the closing
\* server, and the count is 1.
PinningNotCounted ==
    /\ loadBalanced
    /\ sv.operationCount = 1
    /\ \E i, j, k \in Ops :
          /\ sv.ops[i].phase = "pinning"
          /\ sv.ops[j].phase = "checkout"
          /\ sv.ops[k].result = "closed"

\* C36 as stated: operationCount is the number of calls that have started and have
\* not completed, and each is counted before any connection is checked out.
OperationCountAllStarted ==
    /\ sv.operationCount = Cardinality(InProgress)
    /\ sv.operationCount >= 0

\* C37 -- once close() has been called on the ChangeStream, no turn creates a
\* ChangeStreamCursor, and no turn stores a cursor in the slot that was not in it.
NoCursorAfterClose ==
    [][closed => ncur' = ncur /\ (cursor' # 0 => cursor' = cursor)]_vars

\* C38 -- when a turn processes a resumable error of a command of the old cursor
\* while the slot is empty and the topology wait of the resume is pending, the
\* ChangeStream is not closed by it and no call of the consumer is completed by it.
ResumeSurvivesSecondError ==
    [][/\ cursor = 0
       /\ ~closed
       /\ timers # {}
       /\ tlog'.reply.cur # 0
       /\ isResumableError(tlog'.reply.resp.err)
       => /\ ~closed'
          /\ \A c \in Calls : calls'[c].res = calls[c].res]_vars

\* get resumeToken() of the ChangeStream: this.cursor?.resumeToken, 0 when there is
\* no cursor or the cursor has no token
ChangeStream_resumeToken == IF cursor = 0 THEN 0 ELSE cur[cursor].resumeToken

\* C39 -- while close() has not been called, a turn that starts with a token in the
\* resumeToken getter ends with a token in it, and not with an older one.
ResumeTokenStays ==
    [][ChangeStream_resumeToken # 0 /\ ~closed' =>
          /\ ChangeStream_resumeToken' # 0
          /\ ChangeStream_resumeToken' >= ChangeStream_resumeToken]_vars

=============================================================================
